---- MODULE Spec2Model ----
(***************************************************************************)
(* A model of platosl's schema pipeline: the generator Registry            *)
(* (internal/generator), the CUE Loader, Validator and Introspect          *)
(* (internal/cue).  Each component has its own specification; the          *)
(* variables of the components a specification does not exercise stay at   *)
(* their parked values.                                                    *)
(***************************************************************************)
EXTENDS Integers, Sequences, FiniteSets, TLC

VARIABLES
  \* ---- Registry (generator package) ----
  generators,   \* Registry.generators : map[string]Generator
  muWriter,     \* Registry.mu : the goroutine holding the write lock, or NoProc
  muReaders,    \* Registry.mu : the goroutines holding a read lock
  pc,           \* per goroutine: its position in Register / Get / List
  arg,          \* per goroutine: the argument of the call in progress
  ret,          \* per goroutine: what the call returns (set by the body)
  pre,          \* history: the map as it was when Register took the lock
  firstReg,     \* history: per name, the generator of the first Register that returned nil
  \* ---- File system the Loader reads ----
  cueMod,       \* per directory: what its entry "cue.mod" is: "none", "file" or "dir"
  files,        \* per .cue file path: Absent, Unreadable, or the bytes of the file
  extras,       \* the other entries of SchemaDir that exist (a text file, a subdirectory)
  unlistable,   \* the directories os.ReadDir fails on
  \* ---- Loader ----
  ld,           \* the Loader call in progress or just finished, or None
  \* ---- Validator ----
  vd,           \* the Validator.Validate call in progress or just finished, or None
  \* ---- Introspect ----
  it,           \* the Introspect call in progress or just finished, or None
  \* ---- Generators, configuration, commands ----
  ty,           \* the inferType call in progress or just finished, or None
  js,           \* the jsonschema Generate / Validate call in progress or just finished, or None
  cf,           \* the config.UpdateGenerators call in progress or just finished, or None
  cli           \* the command (platosl build, ...) in progress or just finished, or None

regVars == <<generators, muWriter, muReaders, pc, arg, ret, pre, firstReg>>
fsVars == <<cueMod, files, extras, unlistable>>

genVars == <<ty, js, cf, cli>>

vars == <<regVars, fsVars, ld, vd, it, genVars>>

----------------------------------------------------------------------------
(* Bounds *)

NumProcs == 2      \* goroutines calling into one Registry
MaxGenIds == 2     \* distinct Generator values sharing one Name()
MaxCueFiles == 2   \* .cue files a schema directory may hold
MaxPaths == 2      \* length of the path list given to LoadPaths
MaxProblems == 2   \* engine errors one schema value gives rise to
MaxFields == 2     \* fields the iterator of one schema value yields
MaxMembers == 2    \* members of the object a schema value marshals to
MaxSelected == 2   \* length of the generator selection given to UpdateGenerators
MaxWords == 2      \* words an engine message is put together from


None == [kind |-> "none"]
Nil == [kind |-> "nil"]

\* No generator, configuration or command call in progress.
GenParked == ty = None /\ js = None /\ cf = None /\ cli = None

----------------------------------------------------------------------------
(* Strings and paths (package strings, package path/filepath) *)

\* strings.HasPrefix
HasPrefix(s, prefix) ==
  Len(s) >= Len(prefix) /\ SubSeq(s, 1, Len(prefix)) = prefix

\* strings.HasSuffix
HasSuffix(s, suffix) ==
  Len(s) >= Len(suffix) /\ SubSeq(s, Len(s) - Len(suffix) + 1, Len(s)) = suffix

\* The first place at or after i where sub occurs in s, 1-based; 0 when none.
RECURSIVE IndexFrom(_, _, _)
IndexFrom(s, sub, i) ==
  IF i + Len(sub) - 1 > Len(s) THEN 0
  ELSE IF SubSeq(s, i, i + Len(sub) - 1) = sub THEN i
  ELSE IndexFrom(s, sub, i + 1)

\* strings.Index, 1-based: Go's index plus one, 0 for Go's -1.
Index(s, sub) == IndexFrom(s, sub, 1)

\* strings.Contains
Contains(s, sub) == Index(s, sub) # 0

UpperCase == "ABCDEFGHIJKLMNOPQRSTUVWXYZ"
LowerCase == "abcdefghijklmnopqrstuvwxyz"

\* strings.ToLower (ASCII letters)
RECURSIVE ToLower(_)
ToLower(s) ==
  IF s = "" THEN ""
  ELSE LET c == SubSeq(s, 1, 1)
           i == Index(UpperCase, c)
       IN (IF i = 0 THEN c ELSE SubSeq(LowerCase, i, i)) \o ToLower(SubSeq(s, 2, Len(s)))

\* The white space of unicode.IsSpace that occurs in the texts modelled.
WhiteSpace == {" ", "\t", "\n", "\r"}

\* strings.TrimSpace
RECURSIVE TrimSpace(_)
TrimSpace(s) ==
  IF s = "" THEN ""
  ELSE IF SubSeq(s, 1, 1) \in WhiteSpace THEN TrimSpace(SubSeq(s, 2, Len(s)))
  ELSE IF SubSeq(s, Len(s), Len(s)) \in WhiteSpace THEN TrimSpace(SubSeq(s, 1, Len(s) - 1))
  ELSE s

\* strings.LastIndex for a one-character separator, 1-based; 0 when absent.
RECURSIVE LastIndexFrom(_, _, _)
LastIndexFrom(s, c, i) ==
  IF i = 0 THEN 0
  ELSE IF SubSeq(s, i, i) = c THEN i
  ELSE LastIndexFrom(s, c, i - 1)

\* filepath.IsAbs
IsAbs(path) == HasPrefix(path, "/")

\* filepath.Dir, on a clean path: all but the last element; "." for a bare
\* name, "/" for an element of the root.
Dir(path) ==
  LET i == LastIndexFrom(path, "/", Len(path)) IN
    IF i = 0 THEN "."
    ELSE IF i = 1 THEN "/"
    ELSE SubSeq(path, 1, i - 1)

\* filepath.Join(dir, name), on a clean dir and a plain name.
Join(dir, name) ==
  IF dir = "/" THEN "/" \o name
  ELSE IF dir = "." THEN name
  ELSE dir \o "/" \o name

\* The elements of a path, "" and "." dropped; i is where its first "/" is.
RECURSIVE Elements(_)
ElementsCut(path, i) ==
  LET first == IF i = 0 THEN path ELSE SubSeq(path, 1, i - 1)
      rest == IF i = 0 THEN "" ELSE SubSeq(path, i + 1, Len(path))
  IN (IF first \in {"", "."} THEN <<>> ELSE <<first>>) \o Elements(rest)

Elements(path) ==
  IF path = "" THEN <<>> ELSE ElementsCut(path, IndexFrom(path, "/", 1))

\* ".." removes the element before it (and nothing at the root).
RECURSIVE Resolved(_, _)
Resolved(done, todo) ==
  IF todo = <<>> THEN done
  ELSE IF Head(todo) = ".."
    THEN Resolved(IF done = <<>> THEN <<>> ELSE SubSeq(done, 1, Len(done) - 1), Tail(todo))
    ELSE Resolved(Append(done, Head(todo)), Tail(todo))

RECURSIVE Rooted(_)
Rooted(elems) ==
  IF elems = <<>> THEN "" ELSE "/" \o Head(elems) \o Rooted(Tail(elems))

RootedOrRoot(elems) == IF elems = <<>> THEN "/" ELSE Rooted(elems)

\* The process's working directory (os.Getwd).
Cwd == "/w"

\* The file the operating system resolves a path to: relative paths start at
\* the working directory.
Abs(path) ==
  RootedOrRoot(Resolved(<<>>, Elements(IF IsAbs(path) THEN path ELSE Cwd \o "/" \o path)))

----------------------------------------------------------------------------
(* The file system *)

Absent == "<absent>"
Unreadable == "<unreadable>"

\* The directories that exist.  SchemaDir lies under the working directory,
\* OtherDir outside it.
SchemaDir == "/w/s"
OtherDir == "/o"
RealDirs == {"/", Cwd, SchemaDir, OtherDir}

CueName(i) == "f" \o ToString(i) \o ".cue"

\* The .cue files the schema directories may hold.
CueFilePaths ==
  {Join(SchemaDir, CueName(i)) : i \in 1..MaxCueFiles} \cup {Join(OtherDir, CueName(1))}

\* Entries of SchemaDir that are no schema file: a text file, and a
\* subdirectory whose name ends in .cue.
ExtraEntries == {[name |-> "notes.txt", isDir |-> FALSE], [name |-> "sub.cue", isDir |-> TRUE]}

\* Schema sources: three that set port, one that sets host, one that does
\* not compile.
SourceTexts == {"port: 8080", "port: 9090", "port: int", "host: \"db\"", "port: "}

FileStates == {Absent, Unreadable} \cup SourceTexts

\* No file system to speak of: what the specifications that load nothing use.
FsParked ==
  /\ cueMod = [d \in RealDirs |-> "none"]
  /\ files = [f \in CueFilePaths |-> Absent]
  /\ extras = {}
  /\ unlistable = {}

\* What the file a names is: "dir", "file" or "none" (os.Stat fails).
KindOf(a) ==
  IF a \in RealDirs THEN "dir"
  ELSE IF a \in CueFilePaths THEN (IF files[a] = Absent THEN "none" ELSE "file")
  ELSE IF \E d \in RealDirs : a = Join(d, "cue.mod")
    THEN cueMod[Dir(a)]
  ELSE IF \E e \in extras : a = Join(SchemaDir, e.name)
    THEN (IF (CHOOSE e \in extras : a = Join(SchemaDir, e.name)).isDir THEN "dir" ELSE "file")
  ELSE "none"

\* os.Stat(path) and info.IsDir()
NodeKind(path) == KindOf(Abs(path))

\* os.ReadDir(dir), for a directory that exists: its entries sorted by file
\* name ("cue.mod" < "f1.cue" < ... < "notes.txt" < "sub.cue").
RECURSIVE CueEntries(_, _)
CueEntries(d, i) ==
  IF i > MaxCueFiles THEN <<>>
  ELSE (IF Join(d, CueName(i)) \in CueFilePaths /\ files[Join(d, CueName(i))] # Absent
          THEN <<[name |-> CueName(i), isDir |-> FALSE]>>
          ELSE <<>>) \o CueEntries(d, i + 1)

ExtraListing(d) ==
  IF d # SchemaDir THEN <<>>
  ELSE (IF [name |-> "notes.txt", isDir |-> FALSE] \in extras
          THEN <<[name |-> "notes.txt", isDir |-> FALSE]>> ELSE <<>>)
       \o (IF [name |-> "sub.cue", isDir |-> TRUE] \in extras
          THEN <<[name |-> "sub.cue", isDir |-> TRUE]>> ELSE <<>>)

Listing(d) ==
  (IF cueMod[d] # "none"
     THEN <<[name |-> "cue.mod", isDir |-> cueMod[d] = "dir"]>>
     ELSE <<>>)
  \o CueEntries(d, 1) \o ExtraListing(d)

ReadDir(dir) == Listing(Abs(dir))

----------------------------------------------------------------------------
(* CUE values, as far as the Loader sees them (cuelang.org/go/cue) *)

\* cue.Value{}
ZeroValue == [kind |-> "zero"]
StructValue(f) == [kind |-> "struct", fields |-> f]
BottomValue(msg) == [kind |-> "bottom", msg |-> msg]

Bottom == "_|_"
IsTypeName(x) == x \in {"int", "string"}
TypeOf(x) == IF x \in {"int", "8080", "9090"} THEN "int" ELSE "string"
IsConcrete(x) == x # Bottom /\ ~IsTypeName(x)

\* The unification of two field values: equal values, or a type and a
\* concrete value of that type, unify; anything else conflicts.
Meet(x, y) ==
  IF x = Bottom \/ y = Bottom THEN Bottom
  ELSE IF x = y THEN x
  ELSE IF IsTypeName(x) /\ ~IsTypeName(y) /\ TypeOf(y) = x THEN y
  ELSE IF IsTypeName(y) /\ ~IsTypeName(x) /\ TypeOf(x) = y THEN x
  ELSE Bottom

\* Value.Unify: a fresh value holding the fields of both, field by field.
Unify(a, b) ==
  IF a.kind = "bottom" THEN a
  ELSE IF b.kind = "bottom" THEN b
  ELSE StructValue([l \in DOMAIN a.fields \cup DOMAIN b.fields |->
         IF l \in DOMAIN a.fields /\ l \in DOMAIN b.fields THEN Meet(a.fields[l], b.fields[l])
         ELSE IF l \in DOMAIN a.fields THEN a.fields[l]
         ELSE b.fields[l]])

\* Value.Err: the error a value carries, or nil.
Err(v) ==
  IF v.kind = "bottom" THEN [kind |-> "error", msg |-> v.msg]
  ELSE IF v.kind = "struct" /\ \E l \in DOMAIN v.fields : v.fields[l] = Bottom
    THEN [kind |-> "error", msg |-> "conflicting values"]
  ELSE Nil

\* Context.CompileBytes on one "label: value" source.
CompileBytes(data) ==
  LET i == IndexFrom(data, ":", 1)
      label == SubSeq(data, 1, i - 1)
      value == SubSeq(data, i + 2, Len(data))
  IN IF i = 0 \/ value = ""
       THEN BottomValue("expected operand, found 'EOF'")
       ELSE StructValue([l \in {label} |-> value])

Wrap(msg, at, cause) == [kind |-> "error", msg |-> msg, at |-> at, cause |-> cause]

----------------------------------------------------------------------------
(* Loader (internal/cue) *)

\* What a load returns, with the route it took:
\*   statErr   os.Stat of the directory failed or it is no directory
\*   tried     load.Instances was called, with ModuleRoot = root
\*   flat      the per-file fallback ran
Loaded(val, err, route) ==
  [val |-> val, err |-> err, tried |-> route.tried, root |-> route.root,
   loadPath |-> route.loadPath, flat |-> route.flat]

NoRoute == [tried |-> FALSE, root |-> "", loadPath |-> "", flat |-> FALSE]

\* os.ReadFile of the file a: its bytes, or a failure.
ReadAt(a) ==
  IF a \in CueFilePaths /\ files[a] \notin {Absent, Unreadable}
    THEN [ok |-> TRUE, data |-> files[a]]
  ELSE IF KindOf(a) = "file" /\ a \notin CueFilePaths
    THEN [ok |-> TRUE, data |-> "plain text"]
  ELSE [ok |-> FALSE, data |-> ""]

\* os.ReadFile
ReadFile(path) == ReadAt(Abs(path))

\* LoadFile, from "if err := val.Err()" on.
LoadFileCompiled(path, val) ==
  IF Err(val) # Nil
    THEN Loaded(ZeroValue, Wrap("failed to compile", path, Err(val)), NoRoute)
    ELSE Loaded(val, Nil, NoRoute)

\* LoadFile, from the test of os.ReadFile's error on.
LoadFileRead(path, read) ==
  IF ~read.ok
    THEN Loaded(ZeroValue, Wrap("failed to read file", path, Nil), NoRoute)
    ELSE LoadFileCompiled(path, CompileBytes(read.data))

LoadFile(path) == LoadFileRead(path, ReadFile(path))

dirExists(path) == NodeKind(path) = "dir"

\* The loop of findModuleRoot: the first of dir, Dir(dir), ... that has an
\* entry cue.mod (os.Stat succeeds, whatever the entry is); "" when the walk
\* reaches a directory that is its own parent without finding one.
RECURSIVE WalkUp(_)
WalkUp(current) ==
  IF NodeKind(Join(current, "cue.mod")) # "none" THEN current
  ELSE LET parent == Dir(current) IN
    IF parent = current THEN "" ELSE WalkUp(parent)

\* findModuleRoot that gives up with "" instead of falling back.
findModuleRoot_NoFallback(dir) == WalkUp(dir)

\* "Return current working directory as fallback"
OrWorkingDir(found) == IF found # "" THEN found ELSE Cwd

findModuleRoot(dir) == OrWorkingDir(WalkUp(dir))

\* The fallback's loop over the directory entries: the compiled values of the
\* .cue files in listing order, or the error of the first file that cannot be
\* read or compiled.  The loop's body reads and compiles a file as LoadFile
\* does, with the same two errors; one is what it makes of the entry.
RECURSIVE CompileEntries(_, _, _)
CompileEntry(dir, entries, values, one) ==
  IF one.err # Nil
    THEN [err |-> one.err, values |-> <<>>]
    ELSE CompileEntries(dir, Tail(entries), Append(values, one.val))

CompileEntries(dir, entries, values) ==
  IF entries = <<>> THEN [err |-> Nil, values |-> values]
  ELSE IF Head(entries).isDir \/ ~HasSuffix(Head(entries).name, ".cue")
    THEN CompileEntries(dir, Tail(entries), values)
    ELSE CompileEntry(dir, entries, values, LoadFile(Join(dir, Head(entries).name)))

\* result = result.Unify(values[i]) for i = from..len, stopping at the first
\* result that carries an error.
RECURSIVE UnifyFrom(_, _, _)
UnifyFrom(result, values, i) ==
  IF i > Len(values) THEN result
  ELSE LET next == Unify(result, values[i]) IN
    IF Err(next) # Nil THEN next ELSE UnifyFrom(next, values, i + 1)

\* LoadDir's last lines: the result of the unify loop, or its error.
FlatResult(dir, route, result) ==
  IF Err(result) # Nil
    THEN Loaded(ZeroValue, Wrap("failed to unify CUE files", dir, Err(result)), route)
    ELSE Loaded(result, Nil, route)

\* The unification that leaves the first file out.
FlatUnify_SkipsFirst(dir, route, compiled) ==
  IF compiled.err # Nil THEN Loaded(ZeroValue, compiled.err, route)
  ELSE IF Len(compiled.values) = 0
    THEN Loaded(ZeroValue, Wrap("no CUE files found", dir, Nil), route)
  ELSE FlatResult(dir, route,
                  UnifyFrom(compiled.values[Len(compiled.values)], compiled.values, 2))

\* LoadDir after the loop over the entries: no values is an error, else
\* result := values[0] and the unify loop.
FlatUnify(dir, route, compiled) ==
  IF compiled.err # Nil THEN Loaded(ZeroValue, compiled.err, route)
  ELSE IF Len(compiled.values) = 0
    THEN Loaded(ZeroValue, Wrap("no CUE files found", dir, Nil), route)
  ELSE FlatResult(dir, route, UnifyFrom(compiled.values[1], compiled.values, 2))

\* LoadDir, from "Fallback: Load individual CUE files from directory" on.
FlatLoad(dir, route) ==
  IF Abs(dir) \in unlistable
    THEN Loaded(ZeroValue, Wrap("failed to read directory", dir, Nil), route)
    ELSE FlatUnify(dir, route, CompileEntries(dir, ReadDir(dir), <<>>))

\* What load.Instances and Context.BuildInstance make of a directory: no
\* usable instance ("fail"), or a value (one carrying an error included).
PkgFail == "fail"
PkgSources == {"port: 8080", "port: 9090", "port: "}
PkgOutcomes == {PkgFail} \cup PkgSources

\* loadPath := dir, or "./" + dir
LoadPath(dir) ==
  IF ~IsAbs(dir) /\ ~HasPrefix(dir, "./") /\ ~HasPrefix(dir, "../")
    THEN "./" \o dir ELSE dir

\* The route LoadDir takes once moduleRoot and hasModule are known.
ModuleRoute(dir, moduleRoot, hasModule) ==
  [tried |-> hasModule,
   root |-> IF hasModule THEN moduleRoot ELSE "",
   loadPath |-> IF hasModule THEN LoadPath(dir) ELSE "",
   flat |-> FALSE]

\* "if hasModule { ... }", and the fallback when it does not return.
LoadDirRouted(dir, pkg, route) ==
  IF route.tried /\ pkg # PkgFail /\ Err(CompileBytes(pkg)) = Nil
    THEN Loaded(CompileBytes(pkg), Nil, route)
    ELSE FlatLoad(dir, [route EXCEPT !.flat = TRUE])

\* hasModule := moduleRoot != "" && dirExists(filepath.Join(moduleRoot, "cue.mod"))
LoadDirModule(dir, pkg, moduleRoot) ==
  LoadDirRouted(dir, pkg,
                ModuleRoute(dir, moduleRoot,
                            moduleRoot # "" /\ dirExists(Join(moduleRoot, "cue.mod"))))

\* LoadDir once os.Stat(dir) has answered.
LoadDirStat(dir, pkg, kind) ==
  IF kind = "none"
    THEN Loaded(ZeroValue, Wrap("directory not found", dir, Nil), NoRoute)
  ELSE IF kind # "dir"
    THEN Loaded(ZeroValue, Wrap("not a directory", dir, Nil), NoRoute)
  ELSE LoadDirModule(dir, pkg, findModuleRoot(dir))

\* LoadDir(dir), where pkg is what package-style loading would give.
LoadDir(dir, pkg) == LoadDirStat(dir, pkg, NodeKind(dir))

\* The Loader's state after LoadDir(dir) returned r.
LoadDirCalled(dir, pkg, r) ==
  [op |-> "LoadDir", pc |-> "done", paths |-> <<dir>>,
   pkg |-> IF r.tried THEN pkg ELSE PkgFail,
   ret |-> r]

\* Loader.LoadDir called on its own.
CallLoadDir(dir, pkg) ==
  /\ ld = None
  /\ ld' = LoadDirCalled(dir, pkg, LoadDir(dir, pkg))
  /\ UNCHANGED <<regVars, fsVars, vd, it, genVars>>

\* Loader.LoadFile called on its own.
CallLoadFile(path) ==
  /\ ld = None
  /\ ld' = [op |-> "LoadFile", pc |-> "done", paths |-> <<path>>, pkg |-> PkgFail,
            ret |-> LoadFile(path)]
  /\ UNCHANGED <<regVars, fsVars, vd, it, genVars>>

\* Loader.LoadPaths(paths) is entered: no paths is an error at once.
CallLoadPaths(paths) ==
  /\ ld = None
  /\ ld' = IF Len(paths) = 0
             THEN [op |-> "LoadPaths", pc |-> "done", paths |-> paths, i |-> 1,
                   values |-> <<>>, result |-> ZeroValue, loaded |-> <<>>, unified |-> 0,
                   ret |-> [val |-> ZeroValue, err |-> Wrap("no paths provided", "", Nil)]]
             ELSE [op |-> "LoadPaths", pc |-> "load", paths |-> paths, i |-> 1,
                   values |-> <<>>, result |-> ZeroValue, loaded |-> <<>>, unified |-> 0,
                   ret |-> None]
  /\ UNCHANGED <<regVars, fsVars, vd, it, genVars>>

\* The first loop's body once os.Stat(path) has answered: LoadDir or LoadFile.
LoadOneStat(path, pkg, kind) ==
  IF kind = "none"
    THEN Loaded(ZeroValue, Wrap("failed to stat", path, Nil), NoRoute)
  ELSE IF kind = "dir" THEN LoadDir(path, pkg)
  ELSE LoadFile(path)

\* What the first loop's body makes of one path.
LoadOne(path, pkg) == LoadOneStat(path, pkg, NodeKind(path))

\* The Loader's state after a round that skips a path it cannot load.
LoadPathsLoaded_SkipsFailed(one) ==
  LET values == IF one.err # Nil THEN ld.values ELSE Append(ld.values, one.val)
      last == ld.i = Len(ld.paths)
  IN IF last /\ values = <<>>
       THEN [ld EXCEPT !.pc = "done", !.loaded = Append(@, one),
                       !.ret = [val |-> ZeroValue, err |-> one.err]]
       ELSE [ld EXCEPT !.loaded = Append(@, one),
                       !.values = values,
                       !.i = IF last THEN 2 ELSE @ + 1,
                       !.pc = IF last THEN "unify" ELSE "load",
                       !.result = IF last THEN values[1] ELSE @]

\* The Loader's state after one round of the first loop, where one is what
\* the round made of paths[i]: an error returns it; otherwise the value is
\* appended and, after the last path, result := values[0].
LoadPathsLoaded(one) ==
  LET values == Append(ld.values, one.val)
      last == ld.i = Len(ld.paths)
  IN IF one.err # Nil
       THEN [ld EXCEPT !.pc = "done", !.loaded = Append(@, one),
                       !.ret = [val |-> ZeroValue, err |-> one.err]]
       ELSE [ld EXCEPT !.loaded = Append(@, one),
                       !.values = values,
                       !.i = IF last THEN 2 ELSE @ + 1,
                       !.pc = IF last THEN "unify" ELSE "load",
                       !.result = IF last THEN values[1] ELSE @]

\* One round of "for _, path := range paths": stat and load paths[i].
LoadPathsLoad(pkg) ==
  /\ ld # None /\ ld.op = "LoadPaths" /\ ld.pc = "load"
  /\ ld' = LoadPathsLoaded(LoadOne(ld.paths[ld.i], pkg))
  /\ UNCHANGED <<regVars, fsVars, vd, it, genVars>>

\* The second loop without the test of result.Err().
LoadPathsUnify_NoErrTest ==
  /\ ld # None /\ ld.op = "LoadPaths" /\ ld.pc = "unify"
  /\ ld' = IF ld.i > Len(ld.values)
             THEN [ld EXCEPT !.pc = "done", !.ret = [val |-> ld.result, err |-> Nil]]
             ELSE [ld EXCEPT !.result = Unify(ld.result, ld.values[ld.i]),
                             !.unified = @ + 1, !.i = @ + 1]
  /\ UNCHANGED <<regVars, fsVars, vd, it, genVars>>

\* One round of "for i := 1; i < len(values); i++": unify values[i] into
\* result; a result that carries an error returns it.  After the last value,
\* return result, nil.
LoadPathsUnify ==
  /\ ld # None /\ ld.op = "LoadPaths" /\ ld.pc = "unify"
  /\ ld' = IF ld.i > Len(ld.values)
             THEN [ld EXCEPT !.pc = "done", !.ret = [val |-> ld.result, err |-> Nil]]
             ELSE LET next == Unify(ld.result, ld.values[ld.i]) IN
               IF Err(next) # Nil
                 THEN [ld EXCEPT !.pc = "done", !.result = next, !.unified = @ + 1,
                                 !.ret = [val |-> ZeroValue,
                                          err |-> Wrap("failed to unify values", "", Err(next))]]
                 ELSE [ld EXCEPT !.result = next, !.unified = @ + 1, !.i = @ + 1]
  /\ UNCHANGED <<regVars, fsVars, vd, it, genVars>>

\* The caller takes the result; the Loader is free for the next call.
LoaderReturn ==
  /\ ld # None
  /\ ld.pc = "done"
  /\ ld' = None
  /\ UNCHANGED <<regVars, fsVars, vd, it, genVars>>

----------------------------------------------------------------------------
(* Validator (internal/cue) *)

\* The atomic errors of the engine (cue/errors.Error): Error() and Position().
EngineError(msg, file, line, column) ==
  [msg |-> msg, file |-> file, line |-> line, column |-> column]

\* The engine's message for an identifier that resolves to nothing.
ReferenceNotFound(name) == "reference \"" \o name \o "\" not found"

\* What can be wrong with a schema, as the engine reports it.  class says
\* where the engine reports it:
\*   "fatal"       by Value.Err and by Value.Validate
\*   "nested"      by Value.Validate only (an error below the top level)
\*   "incomplete"  by Value.Validate under cue.Concrete(true) only
\* unresolved marks the problems that are an unresolved cross-reference.
Problems ==
  { [class |-> "fatal", unresolved |-> TRUE, hasPos |-> TRUE,
     msg |-> ReferenceNotFound("#Author")],
    [class |-> "fatal", unresolved |-> TRUE, hasPos |-> TRUE,
     msg |-> ReferenceNotFound("#ConflictPolicy")],
    [class |-> "incomplete", unresolved |-> TRUE, hasPos |-> TRUE,
     msg |-> "author: cannot reference optional field: name"],
    [class |-> "incomplete", unresolved |-> TRUE, hasPos |-> TRUE,
     msg |-> "owner: undefined field: name"],
    [class |-> "fatal", unresolved |-> FALSE, hasPos |-> TRUE,
     msg |-> "port: conflicting values 8080 and 9090"],
    [class |-> "nested", unresolved |-> FALSE, hasPos |-> TRUE,
     msg |-> "#Limits.max: cannot use value \"x\" (type string) as int"],
    [class |-> "incomplete", unresolved |-> FALSE, hasPos |-> FALSE,
     msg |-> "port: incomplete value int"] }

\* A schema value as the Validator sees it: the problems the engine finds in
\* it, in the engine's order.
RECURSIVE DistinctSeqsUpTo(_, _)
DistinctSeqsUpTo(S, n) ==
  IF n = 0 THEN {<<>>}
  ELSE LET shorter == DistinctSeqsUpTo(S, n - 1) IN
    shorter \cup UNION {{Append(q, x) : x \in {y \in S : \A i \in 1..Len(q) : q[i] # y}} :
                          q \in shorter}

SchemaValues == DistinctSeqsUpTo(Problems, MaxProblems)

\* The errors of the problems of the given classes, each at the line of its
\* problem.
RECURSIVE ErrorsOf(_, _, _)
ErrorsOf(val, classes, i) ==
  IF i > Len(val) THEN <<>>
  ELSE (IF val[i].class \in classes
          THEN <<IF val[i].hasPos
                   THEN EngineError(val[i].msg, "schema.cue", i, 1)
                   ELSE EngineError(val[i].msg, "", 0, 0)>>
          ELSE <<>>) \o ErrorsOf(val, classes, i + 1)

\* val.Err(): the empty list stands for nil.
ValueErr(val) == ErrorsOf(val, {"fatal"}, 1)

\* val.Validate(cue.Concrete(strict)): the empty list stands for nil.
ValueValidate(val, strict) ==
  ErrorsOf(val, IF strict THEN {"fatal", "nested", "incomplete"} ELSE {"fatal", "nested"}, 1)

ConcreteSuggestion == "Ensure all fields have concrete values (no unresolved references)"
ConflictSuggestion == "Check for duplicate or contradicting field definitions"
IncompleteSuggestion == "Some required fields may be missing or undefined"
ReferenceSuggestion == "Check that all referenced fields and definitions exist"
CannotUseSuggestion == "Type mismatch - check that values match their expected types"

\* extractPath without its strings.TrimSpace.
extractPath_NoTrim(msg) ==
  LET i == Index(msg, ":") IN
    IF i > 1
      THEN LET path == SubSeq(msg, 1, i - 1) IN
        IF ~Contains(path, " ") THEN path ELSE ""
      ELSE ""

\* extractPath: the text before the first colon, when the colon is not the
\* first character and the trimmed text holds no space.
extractPath(msg) ==
  LET i == Index(msg, ":") IN
    IF i > 1
      THEN LET path == TrimSpace(SubSeq(msg, 1, i - 1)) IN
        IF ~Contains(path, " ") THEN path ELSE ""
      ELSE ""

\* cleanMessage: what follows the first ": " when the text before it holds a
\* colon (a file:line:col prefix).
cleanMessage(msg) ==
  LET i == Index(msg, ": ") IN
    IF i > 1 /\ Contains(SubSeq(msg, 1, i - 1), ":")
      THEN SubSeq(msg, i + 2, Len(msg))
      ELSE msg

\* generateSuggestion without its strings.ToLower.
generateSuggestion_CaseSensitive(msg) ==
  IF Contains(msg, "concrete") THEN ConcreteSuggestion
  ELSE IF Contains(msg, "conflicting") \/ Contains(msg, "conflict") THEN ConflictSuggestion
  ELSE IF Contains(msg, "incomplete") THEN IncompleteSuggestion
  ELSE IF Contains(msg, "reference") THEN ReferenceSuggestion
  ELSE IF Contains(msg, "cannot use") THEN CannotUseSuggestion
  ELSE ""

\* generateSuggestion that looks for "reference" before the other keywords.
generateSuggestion_ReferenceFirst(msg) ==
  LET lower == ToLower(msg) IN
    IF Contains(lower, "reference") THEN ReferenceSuggestion
    ELSE IF Contains(lower, "concrete") THEN ConcreteSuggestion
    ELSE IF Contains(lower, "conflicting") \/ Contains(lower, "conflict") THEN ConflictSuggestion
    ELSE IF Contains(lower, "incomplete") THEN IncompleteSuggestion
    ELSE IF Contains(lower, "cannot use") THEN CannotUseSuggestion
    ELSE ""

generateSuggestion(msg) ==
  LET lower == ToLower(msg) IN
    IF Contains(lower, "concrete") THEN ConcreteSuggestion
    ELSE IF Contains(lower, "conflicting") \/ Contains(lower, "conflict") THEN ConflictSuggestion
    ELSE IF Contains(lower, "incomplete") THEN IncompleteSuggestion
    ELSE IF Contains(lower, "reference") THEN ReferenceSuggestion
    ELSE IF Contains(lower, "cannot use") THEN CannotUseSuggestion
    ELSE ""

\* parseErrors that stops after the first atomic error.
parseErrors_FirstOnly(errs) ==
  [i \in 1..(IF Len(errs) > 0 THEN 1 ELSE 0) |->
     [File |-> errs[i].file, Line |-> errs[i].line, Column |-> errs[i].column,
      Path |-> extractPath(errs[i].msg),
      Message |-> cleanMessage(errs[i].msg),
      Suggestion |-> generateSuggestion(errs[i].msg)]]

\* parseErrors: one ValidationError per atomic error, in order.
parseErrors(errs) ==
  [i \in 1..Len(errs) |->
     [File |-> errs[i].file, Line |-> errs[i].line, Column |-> errs[i].column,
      Path |-> extractPath(errs[i].msg),
      Message |-> cleanMessage(errs[i].msg),
      Suggestion |-> generateSuggestion(errs[i].msg)]]

\* NewValidator(strict).Validate(val) is entered: result := {Valid: true}.
CallValidate(val, strict) ==
  /\ vd = None
  /\ vd' = [pc |-> "check_err", val |-> val, strict |-> strict, concreteRan |-> FALSE,
            result |-> [Valid |-> TRUE, Errors |-> <<>>]]
  /\ UNCHANGED <<regVars, fsVars, ld, it, genVars>>

\* Validate that goes on to the concrete check whatever val.Err() says.
ValidateCheckErr_NoReturn ==
  /\ vd # None /\ vd.pc = "check_err"
  /\ vd' = IF ValueErr(vd.val) # <<>>
             THEN [vd EXCEPT !.pc = "concrete",
                             !.result = [Valid |-> FALSE, Errors |-> parseErrors(ValueErr(vd.val))]]
             ELSE [vd EXCEPT !.pc = "concrete"]
  /\ UNCHANGED <<regVars, fsVars, ld, it, genVars>>

\* if err := val.Err(); err != nil { ...; return result }
ValidateCheckErr ==
  /\ vd # None /\ vd.pc = "check_err"
  /\ vd' = IF ValueErr(vd.val) # <<>>
             THEN [vd EXCEPT !.pc = "done",
                             !.result = [Valid |-> FALSE, Errors |-> parseErrors(ValueErr(vd.val))]]
             ELSE [vd EXCEPT !.pc = "concrete"]
  /\ UNCHANGED <<regVars, fsVars, ld, it, genVars>>

\* if err := val.Validate(cue.Concrete(v.strict)); err != nil { ...; return result }
\* return result
ValidateConcrete ==
  /\ vd # None /\ vd.pc = "concrete"
  /\ LET errs == ValueValidate(vd.val, vd.strict) IN
       vd' = IF errs # <<>>
               THEN [vd EXCEPT !.pc = "done", !.concreteRan = TRUE,
                               !.result = [Valid |-> FALSE, Errors |-> parseErrors(errs)]]
               ELSE [vd EXCEPT !.pc = "done", !.concreteRan = TRUE]
  /\ UNCHANGED <<regVars, fsVars, ld, it, genVars>>

\* The caller takes the ValidationResult.
ValidateReturn ==
  /\ vd # None /\ vd.pc = "done"
  /\ vd' = None
  /\ UNCHANGED <<regVars, fsVars, ld, it, genVars>>


----------------------------------------------------------------------------
(* Introspect (internal/cue) *)

\* The kinds of cue.Kind that inferType tests; NumberKind is IntKind|FloatKind.
AllKinds == {"null", "bool", "int", "float", "string", "bytes", "list", "struct"}
StringKind == {"string"}
IntKind == {"int"}
FloatKind == {"float"}
NumberKind == {"int", "float"}
BoolKind == {"bool"}
ListKind == {"list"}
StructKind == {"struct"}

\* kind&k != 0
Has(kind, k) == kind \cap k # {}

\* inferType that tests the struct kind before the others.
inferType_StructFirst(kind) ==
  IF Has(kind, StructKind) THEN "struct"
  ELSE IF Has(kind, StringKind) THEN "string"
  ELSE IF Has(kind, IntKind) THEN "int"
  ELSE IF Has(kind, FloatKind) THEN "float"
  ELSE IF Has(kind, NumberKind) THEN "number"
  ELSE IF Has(kind, BoolKind) THEN "bool"
  ELSE IF Has(kind, ListKind) THEN "list"
  ELSE "unknown"

\* inferType, on val.IncompleteKind()
inferType(kind) ==
  IF Has(kind, StringKind) THEN "string"
  ELSE IF Has(kind, IntKind) THEN "int"
  ELSE IF Has(kind, FloatKind) THEN "float"
  ELSE IF Has(kind, NumberKind) THEN "number"
  ELSE IF Has(kind, BoolKind) THEN "bool"
  ELSE IF Has(kind, ListKind) THEN "list"
  ELSE IF Has(kind, StructKind) THEN "struct"
  ELSE "unknown"

\* What the iterator of val.Fields(cue.Optional(true), cue.Definitions(true))
\* yields for one field: Selector().String(), IsOptional(), and the
\* IncompleteKind() of Value() (no kind at all for a field that is an error).
FieldLabels == {"name", "age", "#Person"}
FieldKinds == {{"string"}, {"int"}, {"int", "float"}, {"struct"}, {"bool", "null"}, {}}
IterFields == [label : FieldLabels, optional : BOOLEAN, kind : FieldKinds]

\* The field lists of a struct: no label twice.
RECURSIVE FieldSeqsUpTo(_)
FieldSeqsUpTo(n) ==
  IF n = 0 THEN {<<>>}
  ELSE LET shorter == FieldSeqsUpTo(n - 1) IN
    shorter \cup UNION {{Append(q, f) :
                           f \in {g \in IterFields : \A i \in 1..Len(q) : q[i].label # g.label}} :
                          q \in shorter}

\* A schema value as Introspect sees it: one whose fields can be iterated,
\* or one for which val.Fields returns an error (no struct).
IntrospectValues ==
  {[iterable |-> FALSE, fields |-> <<>>]}
    \cup {[iterable |-> TRUE, fields |-> q] : q \in FieldSeqsUpTo(MaxFields)}

\* Introspect(val) up to the loop: info := &SchemaInfo{}, iter, err := val.Fields(...)
CallIntrospect(val) ==
  /\ it = None
  /\ it' = IF ~val.iterable
             THEN [pc |-> "done", val |-> val, i |-> 0, info |-> Nil,
                   err |-> Wrap("failed to iterate fields", "", Nil)]
             ELSE [pc |-> "iter", val |-> val, i |-> 0,
                   info |-> [Fields |-> <<>>, Definitions |-> <<>>], err |-> Nil]
  /\ UNCHANGED <<regVars, fsVars, ld, vd, genVars>>

\* The loop body that records a definition in Definitions only.
IntrospectNext_DefinitionsApart ==
  /\ it # None /\ it.pc = "iter"
  /\ it' = IF it.i = Len(it.val.fields)
             THEN [it EXCEPT !.pc = "done"]
             ELSE LET field == it.val.fields[it.i + 1]
                      label == field.label
                  IN IF HasPrefix(label, "#")
                       THEN [it EXCEPT !.i = @ + 1,
                                       !.info.Definitions = Append(@, label)]
                       ELSE [it EXCEPT !.i = @ + 1,
                                       !.info.Fields =
                                         Append(@, [Name |-> label, Type |-> inferType(field.kind),
                                                    Optional |-> field.optional, Path |-> label])]
  /\ UNCHANGED <<regVars, fsVars, ld, vd, genVars>>

\* for iter.Next() { ... }: one round of the loop, or its end and
\* "return info, nil".
IntrospectNext ==
  /\ it # None /\ it.pc = "iter"
  /\ it' = IF it.i = Len(it.val.fields)
             THEN [it EXCEPT !.pc = "done"]
             ELSE LET field == it.val.fields[it.i + 1]
                      label == field.label
                  IN [it EXCEPT !.i = @ + 1,
                                !.info.Definitions =
                                  IF HasPrefix(label, "#") THEN Append(@, label) ELSE @,
                                !.info.Fields =
                                  Append(@, [Name |-> label, Type |-> inferType(field.kind),
                                             Optional |-> field.optional, Path |-> label])]
  /\ UNCHANGED <<regVars, fsVars, ld, vd, genVars>>

\* The caller takes the SchemaInfo.
IntrospectReturn ==
  /\ it # None /\ it.pc = "done"
  /\ it' = None
  /\ UNCHANGED <<regVars, fsVars, ld, vd, genVars>>

----------------------------------------------------------------------------
(* Registry *)

NoProc == 0
Procs == 1..NumProcs

\* Names generators register under (jsonschema's Name(), and another target's).
GenNames == {"jsonschema", "typescript"}

\* A Generator value: its Name() and its identity.
Generators == [name : GenNames, id : 1..MaxGenIds]

Name(gen) == gen.name

ErrAlreadyRegistered(name) == [kind |-> "error", msg |-> "already registered", name |-> name]
ErrGenNotFound(name) == [kind |-> "error", msg |-> "not found", name |-> name]

EmptyMap == [n \in {} |-> None]

\* NewRegistry: an empty map, an unlocked mutex.
NewRegistry ==
  /\ generators = EmptyMap
  /\ muWriter = NoProc
  /\ muReaders = {}

\* No call in progress on any goroutine.
RegParked ==
  /\ NewRegistry
  /\ pc = [p \in Procs |-> "idle"]
  /\ arg = [p \in Procs |-> None]
  /\ ret = [p \in Procs |-> None]
  /\ pre = [p \in Procs |-> None]
  /\ firstReg = [n \in GenNames |-> None]

\* sync.RWMutex: Lock is granted when nobody holds the mutex.
CanLock == muWriter = NoProc /\ muReaders = {}

\* sync.RWMutex: RLock is granted when no writer holds the mutex.
CanRLock == muWriter = NoProc

Goto(p, label) == pc' = [pc EXCEPT ![p] = label]

\* A caller enters Register(gen).
CallRegister(p, gen) ==
  /\ pc[p] = "idle"
  /\ Goto(p, "reg_lock")
  /\ arg' = [arg EXCEPT ![p] = gen]
  /\ UNCHANGED <<generators, muWriter, muReaders, ret, pre, firstReg, fsVars, ld, vd, it, genVars>>

\* Register going on without waiting for the mutex.
RegLock_NoWait(p) ==
  /\ pc[p] = "reg_lock"
  /\ muWriter' = p
  /\ pre' = [pre EXCEPT ![p] = generators]
  /\ Goto(p, "reg_check")
  /\ UNCHANGED <<generators, muReaders, arg, ret, firstReg, fsVars, ld, vd, it, genVars>>

\* Register taking the read lock instead of the write lock.
RegLock_TakesRLock(p) ==
  /\ pc[p] = "reg_lock"
  /\ CanRLock
  /\ muReaders' = muReaders \cup {p}
  /\ pre' = [pre EXCEPT ![p] = generators]
  /\ Goto(p, "reg_check")
  /\ UNCHANGED <<generators, muWriter, arg, ret, firstReg, fsVars, ld, vd, it, genVars>>

\* r.mu.Lock()
RegLock(p) ==
  /\ pc[p] = "reg_lock"
  /\ CanLock
  /\ muWriter' = p
  /\ pre' = [pre EXCEPT ![p] = generators]
  /\ Goto(p, "reg_check")
  /\ UNCHANGED <<generators, muReaders, arg, ret, firstReg, fsVars, ld, vd, it, genVars>>

\* Register without the exists test: the insert always happens.
RegCheck_NoExistsTest(p) ==
  /\ pc[p] = "reg_check"
  /\ ret' = ret
  /\ Goto(p, "reg_insert")
  /\ UNCHANGED <<generators, muWriter, muReaders, arg, pre, firstReg, fsVars, ld, vd, it, genVars>>

\* name := gen.Name(); if _, exists := r.generators[name]; exists { return error }
RegCheck(p) ==
  /\ pc[p] = "reg_check"
  /\ IF Name(arg[p]) \in DOMAIN generators
       THEN /\ ret' = [ret EXCEPT ![p] = ErrAlreadyRegistered(Name(arg[p]))]
            /\ Goto(p, "reg_unlock")
       ELSE /\ ret' = ret
            /\ Goto(p, "reg_insert")
  /\ UNCHANGED <<generators, muWriter, muReaders, arg, pre, firstReg, fsVars, ld, vd, it, genVars>>

\* Register that rebuilds the map around the new entry, dropping the others.
RegInsert_DropsOthers(p) ==
  /\ pc[p] = "reg_insert"
  /\ generators' = [n \in {Name(arg[p])} |-> arg[p]]
  /\ ret' = [ret EXCEPT ![p] = Nil]
  /\ Goto(p, "reg_unlock")
  /\ UNCHANGED <<muWriter, muReaders, arg, pre, firstReg, fsVars, ld, vd, it, genVars>>

\* r.generators[name] = gen; return nil
RegInsert(p) ==
  /\ pc[p] = "reg_insert"
  /\ generators' = [n \in DOMAIN generators \cup {Name(arg[p])} |->
                      IF n = Name(arg[p]) THEN arg[p] ELSE generators[n]]
  /\ ret' = [ret EXCEPT ![p] = Nil]
  /\ Goto(p, "reg_unlock")
  /\ UNCHANGED <<muWriter, muReaders, arg, pre, firstReg, fsVars, ld, vd, it, genVars>>

\* defer r.mu.Unlock(), and the return to the caller.
RegUnlock(p) ==
  /\ pc[p] = "reg_unlock"
  /\ muWriter' = IF muWriter = p THEN NoProc ELSE muWriter
  /\ muReaders' = muReaders \ {p}
  /\ firstReg' = IF ret[p] = Nil /\ firstReg[Name(arg[p])] = None
                   THEN [firstReg EXCEPT ![Name(arg[p])] = arg[p]]
                   ELSE firstReg
  /\ Goto(p, "idle")
  /\ arg' = [arg EXCEPT ![p] = None]
  /\ ret' = [ret EXCEPT ![p] = None]
  /\ pre' = [pre EXCEPT ![p] = None]
  /\ UNCHANGED <<generators, fsVars, ld, vd, it, genVars>>

\* A caller enters Get(name).
CallGet(p, name) ==
  /\ pc[p] = "idle"
  /\ Goto(p, "get_rlock")
  /\ arg' = [arg EXCEPT ![p] = name]
  /\ UNCHANGED <<generators, muWriter, muReaders, ret, pre, firstReg, fsVars, ld, vd, it, genVars>>

\* r.mu.RLock()
GetRLock(p) ==
  /\ pc[p] = "get_rlock"
  /\ CanRLock
  /\ muReaders' = muReaders \cup {p}
  /\ Goto(p, "get_read")
  /\ UNCHANGED <<generators, muWriter, arg, ret, pre, firstReg, fsVars, ld, vd, it, genVars>>

\* gen, exists := r.generators[name]; if !exists { return nil, error }; return gen, nil
GetRead(p) ==
  /\ pc[p] = "get_read"
  /\ ret' = [ret EXCEPT ![p] =
               IF arg[p] \in DOMAIN generators
                 THEN [gen |-> generators[arg[p]], err |-> Nil]
                 ELSE [gen |-> Nil, err |-> ErrGenNotFound(arg[p])]]
  /\ Goto(p, "get_unlock")
  /\ UNCHANGED <<generators, muWriter, muReaders, arg, pre, firstReg, fsVars, ld, vd, it, genVars>>

\* defer r.mu.RUnlock(), and the return to the caller (Get and List alike).
RUnlockReturn(p) ==
  /\ muReaders' = muReaders \ {p}
  /\ Goto(p, "idle")
  /\ arg' = [arg EXCEPT ![p] = None]
  /\ ret' = [ret EXCEPT ![p] = None]
  /\ UNCHANGED <<generators, muWriter, pre, firstReg, fsVars, ld, vd, it, genVars>>

GetUnlock(p) ==
  /\ pc[p] = "get_unlock"
  /\ RUnlockReturn(p)

\* A caller enters List().
CallList(p) ==
  /\ pc[p] = "idle"
  /\ Goto(p, "list_rlock")
  /\ UNCHANGED <<generators, muWriter, muReaders, arg, ret, pre, firstReg, fsVars, ld, vd, it, genVars>>

\* r.mu.RLock()
ListRLock(p) ==
  /\ pc[p] = "list_rlock"
  /\ CanRLock
  /\ muReaders' = muReaders \cup {p}
  /\ Goto(p, "list_read")
  /\ UNCHANGED <<generators, muWriter, arg, ret, pre, firstReg, fsVars, ld, vd, it, genVars>>

\* for name := range r.generators { names = append(names, name) }
\* (the order of the slice is the map's iteration order: any; kept as a set)
ListRead(p) ==
  /\ pc[p] = "list_read"
  /\ ret' = [ret EXCEPT ![p] = [names |-> DOMAIN generators]]
  /\ Goto(p, "list_unlock")
  /\ UNCHANGED <<generators, muWriter, muReaders, arg, pre, firstReg, fsVars, ld, vd, it, genVars>>

ListUnlock(p) ==
  /\ pc[p] = "list_unlock"
  /\ RUnlockReturn(p)

RegistryInit == RegParked /\ FsParked /\ ld = None /\ vd = None /\ it = None /\ GenParked

RegistryNext ==
  \E p \in Procs :
    \/ \E gen \in Generators : CallRegister(p, gen)
    \/ RegLock(p)
    \/ RegCheck(p)
    \/ RegInsert(p)
    \/ RegUnlock(p)
    \/ \E name \in GenNames : CallGet(p, name)
    \/ GetRLock(p)
    \/ GetRead(p)
    \/ GetUnlock(p)
    \/ CallList(p)
    \/ ListRLock(p)
    \/ ListRead(p)
    \/ ListUnlock(p)

SpecRegistry == RegistryInit /\ [][RegistryNext]_vars

----------------------------------------------------------------------------
(* Specifications of the Loader, the Validator and Introspect *)

\* The directories LoadDir is called on: absolute and relative names of the
\* directories that exist, a missing one, and a file.
DirArgs ==
  {"/", Cwd, SchemaDir, OtherDir, ".", "s", "../o", "/missing", Join(SchemaDir, CueName(1))}

LoadDirNext ==
  \/ \E dir \in DirArgs, pkg \in PkgOutcomes : CallLoadDir(dir, pkg)
  \/ \E path \in CueFilePaths : CallLoadFile(path)
  \/ LoaderReturn

\* Every placement of cue.mod entries; the schema directory holds at most
\* one file.
ModuleRootInit ==
  /\ RegParked
  /\ ld = None /\ vd = None /\ it = None /\ GenParked
  /\ cueMod \in [RealDirs -> {"none", "file", "dir"}]
  /\ files \in [CueFilePaths -> {Absent, "port: 8080"}]
  /\ \A i \in 2..MaxCueFiles : files[Join(SchemaDir, CueName(i))] = Absent
  /\ files[Join(OtherDir, CueName(1))] = "port: 8080"
  /\ extras = {}
  /\ unlistable = {}

SpecModuleRoot == ModuleRootInit /\ [][LoadDirNext]_vars

\* Every content of the schema directory; cue.mod in the schema directory
\* only.
FlatDirInit ==
  /\ RegParked
  /\ ld = None /\ vd = None /\ it = None /\ GenParked
  /\ cueMod \in [RealDirs -> {"none", "file", "dir"}]
  /\ \A d \in RealDirs \ {SchemaDir} : cueMod[d] = "none"
  /\ files \in [CueFilePaths -> FileStates]
  /\ files[Join(OtherDir, CueName(1))] = Absent
  /\ extras \in SUBSET ExtraEntries
  /\ unlistable \in {{}, {SchemaDir}}

SpecFlatDir == FlatDirInit /\ [][LoadDirNext]_vars

\* The paths LoadPaths is given.
PathArgs ==
  {SchemaDir, OtherDir, Join(SchemaDir, CueName(1)), Join(OtherDir, CueName(1)), "/missing"}

RECURSIVE SeqsUpTo(_, _)
SeqsUpTo(S, n) ==
  IF n = 0 THEN {<<>>}
  ELSE LET shorter == SeqsUpTo(S, n - 1) IN
    shorter \cup {Append(q, x) : q \in shorter, x \in S}

LoadPathsInit ==
  /\ RegParked
  /\ ld = None /\ vd = None /\ it = None /\ GenParked
  /\ cueMod \in [RealDirs -> {"none", "dir"}]
  /\ \A d \in RealDirs \ {Cwd} : cueMod[d] = "none"
  /\ files \in [CueFilePaths -> {Absent, "port: 8080", "port: 9090", "port: int", "port: "}]
  /\ \A i \in 3..MaxCueFiles : files[Join(SchemaDir, CueName(i))] = Absent
  /\ files[Join(OtherDir, CueName(1))] \in {Absent, "port: 8080", "port: 9090"}
  /\ extras = ExtraEntries
  /\ unlistable = {}

LoadPathsNext ==
  \/ \E paths \in SeqsUpTo(PathArgs, MaxPaths) : CallLoadPaths(paths)
  \/ \E pkg \in PkgOutcomes : LoadPathsLoad(pkg)
  \/ LoadPathsUnify
  \/ LoaderReturn

SpecLoadPaths == LoadPathsInit /\ [][LoadPathsNext]_vars

ValidateInit == RegParked /\ FsParked /\ ld = None /\ vd = None /\ it = None /\ GenParked

ValidateNext ==
  \/ \E val \in SchemaValues, strict \in BOOLEAN : CallValidate(val, strict)
  \/ ValidateCheckErr
  \/ ValidateConcrete
  \/ ValidateReturn

SpecValidate == ValidateInit /\ [][ValidateNext]_vars

IntrospectInit == RegParked /\ FsParked /\ ld = None /\ vd = None /\ it = None /\ GenParked

IntrospectStep ==
  \/ \E val \in IntrospectValues : CallIntrospect(val)
  \/ IntrospectNext
  \/ IntrospectReturn

SpecIntrospect == IntrospectInit /\ [][IntrospectStep]_vars

----------------------------------------------------------------------------
(* Registry: properties *)

\* The map Register leaves behind when it inserts gen into m.
WithEntry(m, gen) ==
  [n \in DOMAIN m \cup {Name(gen)} |-> IF n = Name(gen) THEN gen ELSE m[n]]

\* C1: a Register whose name was already a key when it took the lock returns
\* the already-registered error and leaves the map as it found it, the name
\* still bound to the generator registered first; a Register of a new name
\* returns nil and leaves the map it found plus its own entry.
C1_RegisterDuplicateFails ==
  \A p \in Procs :
    pc[p] = "reg_unlock" =>
      LET n == Name(arg[p]) IN
        IF n \in DOMAIN pre[p]
          THEN /\ ret[p] = ErrAlreadyRegistered(n)
               /\ generators = pre[p]
               /\ generators[n] = firstReg[n]
          ELSE /\ ret[p] = Nil
               /\ generators = WithEntry(pre[p], arg[p])

\* A duplicate Register, of another generator than the one registered, has run.
C1_Witness ==
  \E p \in Procs :
    /\ pc[p] = "reg_unlock"
    /\ ret[p] = ErrAlreadyRegistered(Name(arg[p]))
    /\ generators[Name(arg[p])] # arg[p]

\* What Get has computed when it is about to return.
GetAnswersFirstRegistered ==
  \A p \in Procs :
    pc[p] = "get_unlock" =>
      IF firstReg[arg[p]] = None
        THEN ret[p] = [gen |-> Nil, err |-> ErrGenNotFound(arg[p])]
        ELSE ret[p] = [gen |-> firstReg[arg[p]], err |-> Nil]

\* No step removes a key of the map or binds it to another generator.
NeverRemovedOrRebound ==
  \A n \in DOMAIN generators :
    n \in DOMAIN generators' /\ generators'[n] = generators[n]

\* C2: Get(name) fails with not-found iff no Register of that name has
\* returned nil before, and otherwise returns the generator of the first
\* Register of the name that returned nil; a registered name is never removed
\* or re-bound.
C2_GetReturnsFirstRegistered ==
  [](GetAnswersFirstRegistered) /\ [][NeverRemovedOrRebound]_vars

\* A Get has found a name for which a second, failed Register was tried with
\* another generator: two names are registered and a Get succeeded.
C2_Witness ==
  /\ DOMAIN generators = GenNames
  /\ \E p \in Procs :
       /\ pc[p] = "get_unlock"
       /\ ret[p].err = Nil
       /\ ret[p].gen = firstReg[arg[p]]

InRegisterSection(p) == pc[p] \in {"reg_check", "reg_insert", "reg_unlock"}
InReadSection(p) == pc[p] \in {"get_read", "get_unlock", "list_read", "list_unlock"}

\* C3: whoever is between lock and unlock holds the lock it asked for; while
\* a Register is in its critical section no other Register, Get or List is
\* in theirs.  (Readers may share the section: see the witness.)
C3_MapAccessedUnderLock ==
  \A p \in Procs :
    /\ InRegisterSection(p) =>
         /\ muWriter = p
         /\ muReaders = {}
         /\ \A q \in Procs \ {p} : ~InRegisterSection(q) /\ ~InReadSection(q)
    /\ InReadSection(p) => (p \in muReaders /\ muWriter = NoProc)

\* A Get and a List read the map at the same time.
C3_Witness ==
  \E p, q \in Procs :
    p # q /\ pc[p] = "get_read" /\ pc[q] = "list_read"

----------------------------------------------------------------------------
(* Loader: properties *)

LoadPathsDone == ld # None /\ ld.op = "LoadPaths" /\ ld.pc = "done"
LoadDirDone == ld # None /\ ld.op = "LoadDir" /\ ld.pc = "done"

\* Two values give one field different concrete values.
Contradict(a, b) ==
  /\ a.kind = "struct" /\ b.kind = "struct"
  /\ \E l \in DOMAIN a.fields \cap DOMAIN b.fields :
       /\ IsConcrete(a.fields[l]) /\ IsConcrete(b.fields[l])
       /\ a.fields[l] # b.fields[l]

\* Two of the sources LoadPaths loaded contradict each other.
SourcesContradict ==
  \E i, j \in 1..Len(ld.loaded) :
    /\ i < j
    /\ ld.loaded[i].err = Nil /\ ld.loaded[j].err = Nil
    /\ Contradict(ld.loaded[i].val, ld.loaded[j].val)

\* A directory LoadPaths loaded file by file holds two files that contradict
\* each other.
FlatFilesContradict ==
  \E i \in 1..Len(ld.loaded) :
    /\ ld.loaded[i].flat
    /\ \E f, g \in CueFilePaths :
         /\ f # g
         /\ Dir(f) = Abs(ld.paths[i]) /\ Dir(g) = Abs(ld.paths[i])
         /\ files[f] \in SourceTexts /\ files[g] \in SourceTexts
         /\ Contradict(CompileBytes(files[f]), CompileBytes(files[g]))

\* C4: when two sources of LoadPaths, or two files of a directory it loads
\* file by file, give one field different concrete values, LoadPaths returns
\* an error and the empty value, in whatever order the sources come.
C4_ConflictIsAnError ==
  (LoadPathsDone /\ (SourcesContradict \/ FlatFilesContradict)) =>
    (ld.ret.err # Nil /\ ld.ret.val = ZeroValue)

\* Two directories, one file each, port: 8080 against port: 9090: the unify
\* step failed.
C4_Witness ==
  /\ LoadPathsDone
  /\ ld.paths \in {<<SchemaDir, OtherDir>>, <<OtherDir, SchemaDir>>}
  /\ SourcesContradict
  /\ ld.ret.err # Nil /\ ld.ret.err.msg = "failed to unify values"
  /\ ld.ret.val = ZeroValue

\* values[1] unified with values[2], ..., values[m], every step taken.
RECURSIVE UnifiedPrefix(_, _)
UnifiedPrefix(values, m) ==
  IF m = 1 THEN values[1] ELSE Unify(UnifiedPrefix(values, m - 1), values[m])

\* C5: LoadPaths returns a value only when every path was loaded without
\* error and every unify step succeeded; otherwise it returns the empty value
\* and an error, having stopped at the first path that failed (no later path
\* is looked at) or at the first unify step whose result carries an error.
C5_NoPartialResult ==
  LoadPathsDone =>
    LET n == Len(ld.paths)
        k == Len(ld.loaded)
    IN IF ld.ret.err = Nil
         THEN /\ n > 0 /\ k = n
              /\ \A i \in 1..n : ld.loaded[i].err = Nil /\ ld.values[i] = ld.loaded[i].val
              /\ ld.unified = n - 1
              /\ \A m \in 1..n : Err(UnifiedPrefix(ld.values, m)) = Nil
              /\ ld.ret.val = UnifiedPrefix(ld.values, n)
         ELSE /\ ld.ret.val = ZeroValue
              /\ \/ n = 0 /\ k = 0
                 \/ /\ k \in 1..n
                    /\ ld.loaded[k].err # Nil /\ ld.ret.err = ld.loaded[k].err
                    /\ \A i \in 1..(k - 1) : ld.loaded[i].err = Nil
                    /\ ld.unified = 0
                 \/ /\ k = n /\ n > 1
                    /\ \A i \in 1..n : ld.loaded[i].err = Nil
                    /\ ld.unified \in 1..(n - 1)
                    /\ \A m \in 1..ld.unified : Err(UnifiedPrefix(ld.values, m)) = Nil
                    /\ Err(UnifiedPrefix(ld.values, ld.unified + 1)) # Nil

\* The first path failed and the second, a loadable one, was never looked at.
C5_Witness ==
  /\ LoadPathsDone
  /\ Len(ld.paths) = 2 /\ Len(ld.loaded) = 1
  /\ ld.ret.err # Nil /\ ld.ret.val = ZeroValue
  /\ LoadOne(ld.paths[2], PkgFail).err = Nil

\* dir, its parent, its parent's parent, ... as filepath.Dir gives them.
RECURSIVE LexicalChain(_)
LexicalChain(dir) ==
  IF Dir(dir) = dir THEN {dir} ELSE {dir} \cup LexicalChain(Dir(dir))

\* The module root LoadDir is to use for dir: the nearest directory of dir's
\* chain that has an entry cue.mod, and the working directory when none has.
NearestMarked(dir) ==
  LET marked == {c \in LexicalChain(dir) : NodeKind(Join(c, "cue.mod")) # "none"} IN
    IF marked = {} THEN Cwd
    ELSE CHOOSE c \in marked : \A c2 \in marked : c2 \in LexicalChain(c)

PkgLoaded(pkg) == pkg # PkgFail /\ Err(CompileBytes(pkg)) = Nil

RECURSIVE CueFileNames(_)
CueFileNames(entries) ==
  IF entries = <<>> THEN <<>>
  ELSE (IF ~Head(entries).isDir /\ HasSuffix(Head(entries).name, ".cue")
          THEN <<Head(entries).name>> ELSE <<>>) \o CueFileNames(Tail(entries))

\* The greatest lower bound of a set of field values: its least element when
\* it has one, a conflict otherwise.
Glb(S) ==
  IF \E x \in S : \A y \in S : Meet(x, y) = x
    THEN CHOOSE x \in S : \A y \in S : Meet(x, y) = x
    ELSE Bottom

\* C7: in the per-file mode of LoadDir, a directory without an immediate
\* regular .cue file gives the not-found error and the empty value; with such
\* files, the first one in listing order that cannot be read or compiled
\* fails the call, and otherwise the result is the unification of them all:
\* every field bound to the greatest lower bound of what the files give it,
\* or the unify error and the empty value when a field has none.
C7_FlatModeUnifiesAll ==
  (LoadDirDone /\ ld.ret.flat /\ Abs(ld.paths[1]) \notin unlistable) =>
    LET dir == ld.paths[1]
        names == CueFileNames(ReadDir(dir))
        data(i) == files[Abs(Join(dir, names[i]))]
        bad == {i \in 1..Len(names) :
                  data(i) = Unreadable \/ Err(CompileBytes(data(i))) # Nil}
        vals == {CompileBytes(data(i)) : i \in 1..Len(names)}
        labels == UNION {DOMAIN v.fields : v \in vals}
        glb(l) == Glb({v.fields[l] : v \in {w \in vals : l \in DOMAIN w.fields}})
    IN IF Len(names) = 0
         THEN ld.ret.val = ZeroValue /\ ld.ret.err = Wrap("no CUE files found", dir, Nil)
       ELSE IF bad # {}
         THEN LET first == CHOOSE i \in bad : \A j \in bad : i <= j IN
              /\ ld.ret.val = ZeroValue
              /\ ld.ret.err # Nil
              /\ ld.ret.err.at = Join(dir, names[first])
              /\ ld.ret.err.msg = IF data(first) = Unreadable
                                    THEN "failed to read file" ELSE "failed to compile"
       ELSE IF \E l \in labels : glb(l) = Bottom
         THEN /\ ld.ret.val = ZeroValue
              /\ ld.ret.err # Nil /\ ld.ret.err.msg = "failed to unify CUE files"
       ELSE /\ ld.ret.err = Nil
            /\ ld.ret.val = StructValue([l \in labels |-> glb(l)])

\* A directory holding only a text file and a subdirectory named sub.cue:
\* not found.
C7_Witness ==
  /\ LoadDirDone /\ ld.ret.flat
  /\ ld.paths[1] = SchemaDir
  /\ extras = ExtraEntries
  /\ ld.ret.err = Wrap("no CUE files found", SchemaDir, Nil)
  /\ ld.ret.val = ZeroValue

----------------------------------------------------------------------------
(* Validator: properties *)

ValidateDone == vd # None /\ vd.pc = "done"

\* C8: for a value that carries an error, Validate returns Valid = false
\* with one ValidationError per atomic error of val.Err(), at that error's
\* position, and never calls val.Validate; val.Validate is called only for a
\* value whose Err() is nil.
C8_EngineErrorShortCircuits ==
  ValidateDone =>
    LET errs == ValueErr(vd.val) IN
      /\ errs # <<>> =>
           /\ ~vd.result.Valid
           /\ ~vd.concreteRan
           /\ Len(vd.result.Errors) = Len(errs)
           /\ \A i \in 1..Len(errs) :
                /\ vd.result.Errors[i].File = errs[i].file
                /\ vd.result.Errors[i].Line = errs[i].line
                /\ vd.result.Errors[i].Column = errs[i].column
      /\ vd.concreteRan => errs = <<>>

\* A value with an error of its own and a further one only the concrete
\* check would report: Validate returned the first alone.
C8_Witness ==
  /\ ValidateDone
  /\ vd.strict
  /\ Len(ValueErr(vd.val)) = 1
  /\ Len(ValueValidate(vd.val, TRUE)) = 2
  /\ Len(vd.result.Errors) = 1
  /\ ~vd.concreteRan

HasUnresolvedReference(val) == \E i \in 1..Len(val) : val[i].unresolved

\* The claim as the specification has it: strict validation of a schema with
\* an unresolved cross-reference is invalid, with an error that carries the
\* suggestion of "reference".
C9_AsStated ==
  (ValidateDone /\ vd.strict /\ HasUnresolvedReference(vd.val)) =>
    /\ ~vd.result.Valid
    /\ \E i \in 1..Len(vd.result.Errors) :
         vd.result.Errors[i].Suggestion = ReferenceSuggestion

\* The errors Validate converted.
ConvertedErrors ==
  IF ValueErr(vd.val) # <<>> THEN ValueErr(vd.val) ELSE ValueValidate(vd.val, vd.strict)

EarlierKeywords == {"concrete", "conflict", "incomplete"}

\* C9 (amended): strict validation of a schema with an unresolved
\* cross-reference is invalid, and an error of the result carries the
\* suggestion of "reference" exactly when its message, lower-cased, holds
\* "reference" and none of the keywords tested before it ("concrete",
\* "conflict", "incomplete"), whether or not it is the error of the
\* cross-reference: a cross-reference to a name that holds one of these gets
\* that keyword's suggestion, one reported as an undefined field gets none,
\* and one that only the concrete check reports is not reported at all next
\* to an error of val.Err().
C9_ReferenceSuggestionUnlessEarlierKeyword ==
  (ValidateDone /\ vd.strict /\ HasUnresolvedReference(vd.val)) =>
    /\ ~vd.result.Valid
    /\ Len(vd.result.Errors) = Len(ConvertedErrors)
    /\ \A i \in 1..Len(ConvertedErrors) :
         LET lower == ToLower(ConvertedErrors[i].msg) IN
           vd.result.Errors[i].Suggestion = ReferenceSuggestion
             <=> (Contains(lower, "reference")
                  /\ \A k \in EarlierKeywords : ~Contains(lower, k))

\* Strict validation of a schema that refers to the missing #Author got the
\* suggestion of "reference".
C9_Witness ==
  /\ ValidateDone /\ vd.strict
  /\ vd.val[1].msg = ReferenceNotFound("#Author")
  /\ ~vd.result.Valid
  /\ vd.result.Errors[1].Suggestion = ReferenceSuggestion

----------------------------------------------------------------------------
(* Introspect: properties *)

IntrospectDone == it # None /\ it.pc = "done"

\* C10: for a value whose fields can be iterated, Introspect returns no
\* error and one FieldInfo per field the iterator yields, optional and
\* definition fields included, in the iterator's order, with the iterator's
\* optional flag and its selector string as Name and Path; it returns an
\* error, and no SchemaInfo, only for a value whose iteration cannot start.
C10_OneFieldInfoPerField ==
  IntrospectDone =>
    IF it.val.iterable
      THEN /\ it.err = Nil
           /\ it.info # Nil
           /\ Len(it.info.Fields) = Len(it.val.fields)
           /\ \A i \in 1..Len(it.val.fields) :
                /\ it.info.Fields[i].Name = it.val.fields[i].label
                /\ it.info.Fields[i].Path = it.val.fields[i].label
                /\ it.info.Fields[i].Optional = it.val.fields[i].optional
      ELSE it.err # Nil /\ it.info = Nil

\* A required field that is an error, then an optional definition: both are
\* in the result.
C10_Witness ==
  /\ IntrospectDone
  /\ Len(it.val.fields) = 2
  /\ it.val.fields[1].kind = {} /\ ~it.val.fields[1].optional
  /\ it.val.fields[2].label = "#Person" /\ it.val.fields[2].optional
  /\ Len(it.info.Fields) = 2
  /\ it.info.Fields[2].Optional

----------------------------------------------------------------------------
(* inferType on its own *)

\* Every kind mask a value can have.
KindMasks == SUBSET AllKinds

\* inferType(val), for a value of the given kind mask.
CallInferType(kind) ==
  /\ ty = None
  /\ ty' = [pc |-> "done", kind |-> kind, type |-> inferType(kind)]
  /\ UNCHANGED <<regVars, fsVars, ld, vd, it, js, cf, cli>>

\* The caller takes the type name.
InferTypeReturn ==
  /\ ty # None /\ ty.pc = "done"
  /\ ty' = None
  /\ UNCHANGED <<regVars, fsVars, ld, vd, it, js, cf, cli>>

InferTypeInit == RegParked /\ FsParked /\ ld = None /\ vd = None /\ it = None /\ GenParked

InferTypeNext ==
  \/ \E kind \in KindMasks : CallInferType(kind)
  \/ InferTypeReturn

SpecInferType == InferTypeInit /\ [][InferTypeNext]_vars

\* The order the claim gives, each type with the kinds it stands for.
TypeOrder ==
  << [type |-> "string", kinds |-> {"string"}],
     [type |-> "int", kinds |-> {"int"}],
     [type |-> "float", kinds |-> {"float"}],
     [type |-> "number", kinds |-> {"int", "float"}],
     [type |-> "bool", kinds |-> {"bool"}],
     [type |-> "list", kinds |-> {"list"}],
     [type |-> "struct", kinds |-> {"struct"}] >>

\* C11: inferType returns the first type of the order string, int, float,
\* number, bool, list, struct whose kinds meet the mask, and "unknown" when
\* none does.
C11_FirstKindInOrder ==
  (ty # None /\ ty.pc = "done") =>
    LET hits == {i \in 1..Len(TypeOrder) : ty.kind \cap TypeOrder[i].kinds # {}} IN
      IF hits = {} THEN ty.type = "unknown"
      ELSE ty.type = TypeOrder[CHOOSE i \in hits : \A j \in hits : i <= j].type

\* A mask of three kinds, none of them the first of the order: the earliest
\* of the three is the answer.
C11_Witness ==
  /\ ty # None /\ ty.pc = "done"
  /\ ty.kind = {"struct", "list", "float"}
  /\ ty.type = "float"

----------------------------------------------------------------------------
(* Introspect: the definitions list *)

\* The labels that start with the definition marker, in order, marker
\* stripped.
RECURSIVE StrippedDefinitions(_)
StrippedDefinitions(fields) ==
  IF fields = <<>> THEN <<>>
  ELSE (IF HasPrefix(Head(fields).label, "#")
          THEN <<SubSeq(Head(fields).label, 2, Len(Head(fields).label))>>
          ELSE <<>>) \o StrippedDefinitions(Tail(fields))

\* C12: Definitions holds, for every iterated field whose label starts with
\* '#', the label with the marker stripped, and nothing for the other labels.
C12_DefinitionsStripped ==
  (IntrospectDone /\ it.val.iterable) =>
    it.info.Definitions = StrippedDefinitions(it.val.fields)

----------------------------------------------------------------------------
(* encoding/json, as far as the jsonschema generator uses it *)

\* The bytes that occur in keys, in ascending order.
ByteOrder == "#$0123456789ABCDEFGHIJKLMNOPQRSTUVWXYZabcdefghijklmnopqrstuvwxyz"

\* a < b for strings, byte by byte (sort.Strings, as encoding/json orders
\* the keys of a map).
RECURSIVE StrLess(_, _)
StrLess(a, b) ==
  IF b = "" THEN FALSE
  ELSE IF a = "" THEN TRUE
  ELSE IF SubSeq(a, 1, 1) = SubSeq(b, 1, 1)
    THEN StrLess(SubSeq(a, 2, Len(a)), SubSeq(b, 2, Len(b)))
  ELSE Index(ByteOrder, SubSeq(a, 1, 1)) < Index(ByteOrder, SubSeq(b, 1, 1))

\* The keys of a map in the order encoding/json writes them.
RECURSIVE SortedKeys(_)
SortedKeys(S) ==
  IF S = {} THEN <<>>
  ELSE LET least == CHOOSE x \in S : \A y \in S \ {x} : StrLess(x, y)
       IN <<least>> \o SortedKeys(S \ {least})

\* JSON texts of member values: a number, a string, and a number that
\* float64 cannot hold.
JsonTexts == {"1", "\"Ada\"", "9007199254740993"}

\* json.Unmarshal into interface{}: a string stays a string, a number
\* becomes the nearest float64.
GoValue(text) ==
  IF HasPrefix(text, "\"")
    THEN [type |-> "string", v |-> SubSeq(text, 2, Len(text) - 1)]
  ELSE IF text = "9007199254740993" THEN [type |-> "float64", v |-> "9007199254740992"]
  ELSE [type |-> "float64", v |-> text]

\* json.Marshal of such a value.
JsonOf(value) ==
  IF value.type = "string" THEN "\"" \o value.v \o "\"" ELSE value.v

\* A Go map[string]interface{}: nil, or its entries.
NilMap == [isNil |-> TRUE, entries |-> <<>>]
GoMap(entries) == [isNil |-> FALSE, entries |-> entries]
NoEntries == [k \in {} |-> Nil]

\* The members of a map, one per line, the keys in the given order.
RECURSIVE MarshalMembers(_, _, _)
MarshalMembers(entries, keys, indent) ==
  IF keys = <<>> THEN ""
  ELSE indent \o "\"" \o Head(keys) \o "\": " \o JsonOf(entries[Head(keys)])
       \o (IF Len(keys) > 1 THEN ",\n" ELSE "\n")
       \o MarshalMembers(entries, Tail(keys), indent)

\* json.MarshalIndent of a map nested one level deep in the output.
MarshalMap(m) ==
  IF m.isNil THEN "null"
  ELSE IF DOMAIN m.entries = {} THEN "{}"
  ELSE "{\n" \o MarshalMembers(m.entries, SortedKeys(DOMAIN m.entries), "    ") \o "  }"

----------------------------------------------------------------------------
(* The jsonschema generator (internal/generator/jsonschema) *)

\* Keys of the marshalled object: plain ones, definition-marked ones, and
\* the marker alone.
MemberKeys == {"name", "Person", "#Person", "#"}

\* The objects a value can marshal to.
JsonObjects ==
  UNION {[K -> JsonTexts] : K \in {K \in SUBSET MemberKeys : Cardinality(K) <= MaxMembers}}

\* What a generator.Context's Value is, as Generate and Validate see it:
\*   "error"       Value.Err() is not nil (MarshalJSON fails as well)
\*   "incomplete"  the schema {name: string, age?: int & >=0 & <=150}: no
\*                 error, but no concrete value to marshal
\*   "concrete"    MarshalJSON gives JSON of the given kind
ErrorValue == [what |-> "error", kind |-> "none", members |-> NoEntries]
PersonSchema == [what |-> "incomplete", kind |-> "none", members |-> NoEntries]
ConcreteValue(kind, members) == [what |-> "concrete", kind |-> kind, members |-> members]
ContextValues ==
  {ErrorValue, PersonSchema}
    \cup {ConcreteValue(kind, NoEntries) : kind \in {"null", "number", "array"}}
    \cup {ConcreteValue("object", members) : members \in JsonObjects}

\* ctx.Config.Name
ProjectNames == {"shop", ""}

Contexts == [Value : ContextValues, Name : ProjectNames]

\* ctx.Value.Err()
ContextErr(value) ==
  IF value.what = "error" THEN [kind |-> "error", msg |-> "conflicting values"] ELSE Nil

\* ctx.Value.MarshalJSON()
MarshalJSON(value) ==
  IF value.what = "error" THEN [err |-> ContextErr(value), data |-> Nil]
  ELSE IF value.what = "incomplete"
    THEN [err |-> [kind |-> "error", msg |-> "cannot convert incomplete value"], data |-> Nil]
  ELSE [err |-> Nil, data |-> [kind |-> value.kind, members |-> value.members]]

\* A decoder that takes anything that is not an object for an empty input.
Unmarshal_AcceptsAny(data) ==
  IF data.kind = "object"
    THEN [err |-> Nil,
          obj |-> GoMap([k \in DOMAIN data.members |-> GoValue(data.members[k])])]
  ELSE [err |-> Nil, obj |-> NilMap]

\* json.Unmarshal(data, &obj) for obj of type map[string]interface{}: null
\* leaves the map nil, anything but an object is an error.
Unmarshal(data) ==
  IF data.kind = "object"
    THEN [err |-> Nil,
          obj |-> GoMap([k \in DOMAIN data.members |-> GoValue(data.members[k])])]
  ELSE IF data.kind = "null" THEN [err |-> Nil, obj |-> NilMap]
  ELSE [err |-> [kind |-> "error", msg |-> "cannot unmarshal into Go value of type map"],
        obj |-> NilMap]

\* The keys of the schema map of Generate.
SchemaKeys == {"$schema", "$id", "title", "type", "properties", "definitions"}
SchemaURI == "https://json-schema.org/draft/2020-12/schema"
IdPrefix == "https://platosl.org/schemas/"

\* The schema map without its $schema member.
SchemaMap_NoSchemaURI(name, obj, defs) ==
  [k \in SchemaKeys \ {"$schema"} |->
     CASE k = "$id" -> [type |-> "string", v |-> IdPrefix \o name]
       [] k = "title" -> [type |-> "string", v |-> name]
       [] k = "type" -> [type |-> "string", v |-> "object"]
       [] k = "properties" -> obj
       [] k = "definitions" -> GoMap(defs)]

\* schema := map[string]interface{}{...}: properties is the map obj itself,
\* definitions the map extractDefinitions returned.
SchemaMap(name, obj, defs) ==
  [k \in SchemaKeys |->
     CASE k = "$schema" -> [type |-> "string", v |-> SchemaURI]
       [] k = "$id" -> [type |-> "string", v |-> IdPrefix \o name]
       [] k = "title" -> [type |-> "string", v |-> name]
       [] k = "type" -> [type |-> "string", v |-> "object"]
       [] k = "properties" -> obj
       [] k = "definitions" -> GoMap(defs)]

\* One member of the schema map as json.MarshalIndent(schema, "", "  ")
\* writes it.
MarshalSchemaMember(schema, k) ==
  "  \"" \o k \o "\": "
    \o (IF k \in {"properties", "definitions"} THEN MarshalMap(schema[k]) ELSE JsonOf(schema[k]))

RECURSIVE MarshalSchemaMembers(_, _)
MarshalSchemaMembers(schema, keys) ==
  IF keys = <<>> THEN ""
  ELSE MarshalSchemaMember(schema, Head(keys))
       \o (IF Len(keys) > 1 THEN ",\n" ELSE "\n")
       \o MarshalSchemaMembers(schema, Tail(keys))

\* json.MarshalIndent(schema, "", "  ")
MarshalIndent(schema) ==
  "{\n" \o MarshalSchemaMembers(schema, SortedKeys(DOMAIN schema)) \o "}"

\* A []byte result: nil, or the bytes.
NoBytes == [isNil |-> TRUE, bytes |-> ""]
Bytes(text) == [isNil |-> FALSE, bytes |-> text]

\* fmt.Errorf("...: %w", err)
Errorf(msg, cause) == Wrap(msg, "", cause)

\* A call of Generate that returned at one of its error returns.
GenerateFailed(ctx, first, err) ==
  [op |-> "Generate", pc |-> "done", ctx |-> ctx, obj |-> NilMap, defs |-> NoEntries,
   todo |-> {}, visited |-> <<>>, out |-> NoBytes, err |-> err, first |-> first]

\* A call of Generate that enters extractDefinitions(obj): the range loop
\* has every key of obj still to visit.
GenerateExtracting(ctx, first, obj) ==
  [op |-> "Generate", pc |-> "extract", ctx |-> ctx, obj |-> obj, defs |-> NoEntries,
   todo |-> DOMAIN obj.entries, visited |-> <<>>, out |-> NoBytes, err |-> Nil,
   first |-> first]

\* Generate from json.Unmarshal on.
GenerateParsed(ctx, first, parsed) ==
  IF parsed.err # Nil
    THEN GenerateFailed(ctx, first, Errorf("failed to parse JSON", parsed.err))
  ELSE GenerateExtracting(ctx, first, parsed.obj)

\* Generate from the result of ctx.Value.MarshalJSON() on.
GenerateMarshalled(ctx, first, marshalled) ==
  IF marshalled.err # Nil
    THEN GenerateFailed(ctx, first, Errorf("failed to marshal to JSON", marshalled.err))
  ELSE GenerateParsed(ctx, first, Unmarshal(marshalled.data))

\* Generate up to the call of extractDefinitions.
GenerateStart(ctx, first) == GenerateMarshalled(ctx, first, MarshalJSON(ctx.Value))

CallGenerate(ctx) ==
  /\ js = None
  /\ js' = GenerateStart(ctx, None)
  /\ UNCHANGED <<regVars, fsVars, ld, vd, it, ty, cf, cli>>

\* defs[name] = val
WithDefinition(defs, name, val) ==
  [k \in DOMAIN defs \cup {name} |-> IF k = name THEN val ELSE defs[k]]

\* delete(obj, key)
Delete(obj, key) ==
  IF obj.isNil THEN obj
  ELSE GoMap([k \in DOMAIN obj.entries \ {key} |-> obj.entries[k]])

\* The loop body without its delete(obj, key).
ExtractOne_KeepsMarked(defs, obj, key) ==
  IF Len(key) > 0 /\ SubSeq(key, 1, 1) = "#"
    THEN [defs |-> WithDefinition(defs, SubSeq(key, 2, Len(key)), obj.entries[key]),
          obj |-> obj]
  ELSE [defs |-> defs, obj |-> obj]

\* The loop body filing the value under the key as it is, marker included.
ExtractOne_KeepsMarker(defs, obj, key) ==
  IF Len(key) > 0 /\ SubSeq(key, 1, 1) = "#"
    THEN [defs |-> WithDefinition(defs, key, obj.entries[key]),
          obj |-> Delete(obj, key)]
  ELSE [defs |-> defs, obj |-> obj]

\* The body of the range loop of extractDefinitions for one key: what it
\* makes of defs and of obj.
ExtractOne(defs, obj, key) ==
  IF Len(key) > 0 /\ SubSeq(key, 1, 1) = "#"
    THEN [defs |-> WithDefinition(defs, SubSeq(key, 2, Len(key)), obj.entries[key]),
          obj |-> Delete(obj, key)]
  ELSE [defs |-> defs, obj |-> obj]

\* One iteration of the range loop: Go visits the keys of a map in no
\* particular order, so any key not yet visited can be the next one.
ExtractStep(key) ==
  /\ js # None /\ js.op = "Generate" /\ js.pc = "extract"
  /\ key \in js.todo
  /\ js' = [js EXCEPT !.defs = ExtractOne(js.defs, js.obj, key).defs,
                      !.obj = ExtractOne(js.defs, js.obj, key).obj,
                      !.todo = @ \ {key},
                      !.visited = Append(@, key)]
  /\ UNCHANGED <<regVars, fsVars, ld, vd, it, ty, cf, cli>>

\* The keys among those visited that obj still has, in visiting order.
RECURSIVE StillIn(_, _)
StillIn(obj, visited) ==
  IF visited = <<>> THEN <<>>
  ELSE (IF Head(visited) \in DOMAIN obj.entries THEN <<Head(visited)>> ELSE <<>>)
       \o StillIn(obj, Tail(visited))

\* An encoder that writes the members of properties in the order the range
\* loop met them instead of sorting the keys.
GenerateOutput_VisitOrder(call) ==
  "{\n"
    \o "  \"$id\": " \o JsonOf([type |-> "string", v |-> IdPrefix \o call.ctx.Name]) \o ",\n"
    \o "  \"$schema\": " \o JsonOf([type |-> "string", v |-> SchemaURI]) \o ",\n"
    \o "  \"definitions\": " \o MarshalMap(GoMap(call.defs)) \o ",\n"
    \o "  \"properties\": "
    \o (IF call.obj.isNil \/ DOMAIN call.obj.entries = {} THEN MarshalMap(call.obj)
        ELSE "{\n" \o MarshalMembers(call.obj.entries, StillIn(call.obj, call.visited), "    ")
             \o "  }")
    \o ",\n"
    \o "  \"title\": " \o JsonOf([type |-> "string", v |-> call.ctx.Name]) \o ",\n"
    \o "  \"type\": \"object\"\n"
    \o "}"

\* The bytes Generate returns for a call whose range loop has ended.
GenerateOutput(call) == MarshalIndent(SchemaMap(call.ctx.Name, call.obj, call.defs))

\* extractDefinitions returns, the schema map is built and formatted, and
\* Generate returns the output.
GenerateFormat ==
  /\ js # None /\ js.op = "Generate" /\ js.pc = "extract"
  /\ js.todo = {}
  /\ js' = [js EXCEPT !.pc = "done", !.out = Bytes(GenerateOutput(js))]
  /\ UNCHANGED <<regVars, fsVars, ld, vd, it, ty, cf, cli>>

\* Generate is called once more with the context of the call that just
\* returned; what that call returned is kept for comparison.
GenerateAgain ==
  /\ js # None /\ js.op = "Generate" /\ js.pc = "done"
  /\ js.first = None
  /\ js' = GenerateStart(js.ctx, [out |-> js.out, err |-> js.err, visited |-> js.visited])
  /\ UNCHANGED <<regVars, fsVars, ld, vd, it, ty, cf, cli>>

\* Generator.Validate(ctx)
GeneratorValidate(ctx) ==
  IF ContextErr(ctx.Value) # Nil
    THEN Errorf("invalid CUE value", ContextErr(ctx.Value))
  ELSE Nil

CallGeneratorValidate(ctx) ==
  /\ js = None
  /\ js' = [op |-> "Validate", pc |-> "done", ctx |-> ctx, err |-> GeneratorValidate(ctx)]
  /\ UNCHANGED <<regVars, fsVars, ld, vd, it, ty, cf, cli>>

JsonSchemaReturn ==
  /\ js # None /\ js.pc = "done"
  /\ js' = None
  /\ UNCHANGED <<regVars, fsVars, ld, vd, it, ty, cf, cli>>

JsonSchemaInit ==
  /\ RegParked /\ FsParked /\ ld = None /\ vd = None /\ it = None /\ GenParked

JsonSchemaNext ==
  \/ \E ctx \in Contexts : CallGenerate(ctx)
  \/ \E key \in MemberKeys : ExtractStep(key)
  \/ GenerateFormat
  \/ GenerateAgain
  \/ \E ctx \in Contexts : CallGeneratorValidate(ctx)
  \/ JsonSchemaReturn

SpecJsonSchema == JsonSchemaInit /\ [][JsonSchemaNext]_vars

----------------------------------------------------------------------------
(* Properties of the jsonschema generator *)

GenerateDone == js # None /\ js.op = "Generate" /\ js.pc = "done"
GenerateSucceeded == GenerateDone /\ js.err = Nil

\* The value of the context marshals to a JSON object.
MarshalsToObject(value) == value.what = "concrete" /\ value.kind = "object"

Marked(key) == Len(key) > 0 /\ SubSeq(key, 1, 1) = "#"

\* The members of the marshalled object that belong in properties and in
\* definitions, each value given by Of(text) for its JSON text.
PlainMembers(members, Of(_)) ==
  [k \in {k \in DOMAIN members : ~Marked(k)} |-> Of(members[k])]
MarkedMembers(members, Of(_)) ==
  [n \in {SubSeq(k, 2, Len(k)) : k \in {k \in DOMAIN members : Marked(k)}} |->
     Of(members["#" \o n])]

\* A value written to the output exactly as the marshalled object has it.
AsMarshalled(text) == [type |-> "raw", v |-> text]

\* The output for an object whose members are routed by their first byte
\* and written with the values Of gives.
RoutedOutput(ctx, Of(_)) ==
  MarshalIndent(SchemaMap(ctx.Name,
                          GoMap(PlainMembers(ctx.Value.members, Of)),
                          MarkedMembers(ctx.Value.members, Of)))

\* C13, as stated: in the output of a successful Generate, every key of the
\* marshalled object that begins with '#' is in definitions without its '#'
\* and with its value, properties has no key beginning with '#', and every
\* other key is in properties with its value unchanged.
C13_RoutedWithValuesUnchanged ==
  (GenerateSucceeded /\ MarshalsToObject(js.ctx.Value))
    => js.out.bytes = RoutedOutput(js.ctx, AsMarshalled)

\* C13, the part the code keeps: the keys are routed as stated, and each
\* value is the one encoding/json decoded (numbers as float64) and wrote
\* again.
C13_RoutedByMarker ==
  (GenerateSucceeded /\ MarshalsToObject(js.ctx.Value))
    => js.out.bytes = RoutedOutput(js.ctx, GoValue)

C13_Witness ==
  /\ GenerateSucceeded
  /\ js.ctx.Value.members = ("#Person" :> "\"Ada\"" @@ "name" :> "1")
  /\ DOMAIN js.obj.entries = {"name"}
  /\ DOMAIN js.defs = {"Person"}

\* The key sets of the two sections of the output: GenerateFormat writes
\* properties from the map obj and definitions from the map defs.
PropertiesKeys == DOMAIN js.obj.entries
DefinitionsKeys == DOMAIN js.defs

\* C14, as stated: for every input object the key sets of properties and
\* definitions in the output are disjoint.
C14_KeySetsDisjoint ==
  (GenerateSucceeded /\ MarshalsToObject(js.ctx.Value))
    => PropertiesKeys \cap DefinitionsKeys = {}

\* The names n for which the marshalled object has both the member n and
\* the member #n.
CollidingNames(members) ==
  {n \in DOMAIN members : ~Marked(n) /\ ("#" \o n) \in DOMAIN members}

\* C14, amended: every member of the input object lands in exactly one
\* section (a key beginning with '#' in definitions, without the marker, and
\* not in properties; any other key in properties), and a name is a key of
\* both sections exactly when the input has it both with and without the
\* marker.
C14_OneSectionPerMember ==
  (GenerateSucceeded /\ MarshalsToObject(js.ctx.Value))
    => /\ \A k \in DOMAIN js.ctx.Value.members :
            IF Marked(k)
              THEN SubSeq(k, 2, Len(k)) \in DefinitionsKeys /\ k \notin PropertiesKeys
            ELSE k \in PropertiesKeys
       /\ PropertiesKeys \cap DefinitionsKeys = CollidingNames(js.ctx.Value.members)

C14_Witness ==
  /\ GenerateSucceeded
  /\ DOMAIN js.ctx.Value.members = {"Person", "#Person"}
  /\ "Person" \in PropertiesKeys \cap DefinitionsKeys

\* A JSON object of exactly six members, written as json.MarshalIndent
\* writes a map (keys in byte order, two spaces of indentation), with the
\* given texts for the two sections.
SixMembers(name, properties, definitions) ==
  "{\n"
    \o "  \"$id\": \"https://platosl.org/schemas/" \o name \o "\",\n"
    \o "  \"$schema\": \"https://json-schema.org/draft/2020-12/schema\",\n"
    \o "  \"definitions\": " \o definitions \o ",\n"
    \o "  \"properties\": " \o properties \o ",\n"
    \o "  \"title\": \"" \o name \o "\",\n"
    \o "  \"type\": \"object\"\n"
    \o "}"

C16_RequiredListsName ==
  (GenerateDone /\ js.ctx.Value = PersonSchema)
    => /\ js.err = Nil
       /\ Contains(js.out.bytes, "\"required\": [\n    \"name\"\n  ]")

\* The second of two calls with one context has returned.
SecondGenerateDone == GenerateDone /\ js.first # None

\* C17: two calls of Generate with an equal context return the same bytes
\* (and the same error), whatever order the keys of the object were visited
\* in while the definitions were extracted and the envelope was written.
C17_SameContextSameBytes ==
  SecondGenerateDone => (js.out = js.first.out /\ js.err = js.first.err)

C17_Witness ==
  /\ SecondGenerateDone
  /\ js.err = Nil
  /\ DOMAIN js.ctx.Value.members = {"name", "Person"}
  /\ js.visited # js.first.visited
  /\ js.out = js.first.out

GeneratorValidateDone == js # None /\ js.op = "Validate" /\ js.pc = "done"

\* Generate returned bytes and no error, or no bytes and an error.
BytesOrError == (~js.out.isNil /\ js.err = Nil) \/ (js.out.isNil /\ js.err # Nil)

\* Validate returned an error exactly for a value that carries one.
ValidateErrIffValueErr == (js.err # Nil) <=> (js.ctx.Value.what = "error")

\* C18, as stated: Generate returns either bytes and no error or no bytes
\* and an error; it returns the error when the value cannot be marshalled to
\* JSON and when the marshalled JSON is not an object; Validate returns an
\* error exactly when the value of the context carries an error.
C18_FailsUnlessObject ==
  /\ GenerateDone
       => /\ BytesOrError
          /\ ~MarshalsToObject(js.ctx.Value) => js.err # Nil
  /\ GeneratorValidateDone => ValidateErrIffValueErr

\* C18, the part the code keeps: as above, except that a value that marshals
\* to the JSON null is taken like an object without members.
C18_FailsUnlessObjectOrNull ==
  /\ GenerateDone
       => /\ BytesOrError
          /\ (js.ctx.Value.what # "concrete" \/ js.ctx.Value.kind \in {"number", "array"})
               => js.err # Nil
          /\ (js.ctx.Value.what = "concrete" /\ js.ctx.Value.kind \in {"object", "null"})
               => js.err = Nil
  /\ GeneratorValidateDone => ValidateErrIffValueErr

C18_Witness ==
  /\ GenerateDone
  /\ js.ctx.Value = ConcreteValue("null", NoEntries)
  /\ js.err = Nil
  /\ js.out.bytes = SixMembers(js.ctx.Name, "null", "{}")

----------------------------------------------------------------------------
(* The build command (internal/cli): runBuild, runValidate, runGenAll *)

\* The generators the imports of gen.go register.
RegisteredNames == {"elixir", "go", "jsonschema", "typescript", "zod"}

\* The names under generate: in platosl.yaml; rust has no generator.
BuildTargets == {"jsonschema", "rust"}

\* What config.Load returns: an error, or a Config (Schemas as the number of
\* configured paths, never none because Load puts in the default path).
ConfigLoadErrors ==
  {Wrap("config file not found", "platosl.yaml", Nil),
   Wrap("failed to read config file", "platosl.yaml", Nil),
   Wrap("failed to parse config file", "platosl.yaml", Nil)}
BuildConfigs ==
  UNION {[Name : {"shop"}, Schemas : 1..MaxPaths, Generate : [T -> [Enabled : BOOLEAN]]] :
           T \in SUBSET BuildTargets}

\* runValidate(cmd, []string{}): the configuration is loaded again, the
\* schema paths os.Stat cannot reach are skipped, and the errors found in
\* the others are counted.
runValidate(reloadErr, accessible, errors) ==
  IF reloadErr # Nil THEN reloadErr
  ELSE IF accessible = 0 THEN Wrap("no schema paths configured in platosl.yaml", "", Nil)
  ELSE IF errors > 0 THEN Wrap("found error(s)", "", Nil)
  ELSE Nil

\* A call of runBuild that has not done anything yet.
BuildStarted ==
  [pc |-> "load", cfg |-> Nil, validated |-> FALSE, valErr |-> Nil,
   genStarted |-> FALSE, genReturned |-> FALSE, genErr |-> Nil,
   todo |-> {}, run |-> {}, written |-> {}, genErrors |-> <<>>, generated |-> <<>>,
   ret |-> None]

CallRunBuild ==
  /\ cli = None
  /\ cli' = BuildStarted
  /\ UNCHANGED <<regVars, fsVars, ld, vd, it, ty, js, cf>>

\* cfg, err := config.Load(GetConfigFile()); if err != nil { return err }
BuildLoadConfig(loaded) ==
  /\ cli # None /\ cli.pc = "load"
  /\ cli' = IF loaded \in ConfigLoadErrors
              THEN [cli EXCEPT !.pc = "done", !.ret = loaded]
            ELSE [cli EXCEPT !.pc = "validate", !.cfg = loaded]
  /\ UNCHANGED <<regVars, fsVars, ld, vd, it, ty, js, cf>>

\* runBuild going on to step 2 whatever runValidate returned.
AfterValidate_IgnoresError(call, err) ==
  [call EXCEPT !.pc = "genAll", !.validated = TRUE, !.valErr = err]

\* What runBuild does with the error of runValidate.
AfterValidate(call, err) ==
  IF err # Nil
    THEN [call EXCEPT !.pc = "done", !.validated = TRUE, !.valErr = err, !.ret = err]
  ELSE [call EXCEPT !.pc = "genAll", !.validated = TRUE]

\* Step 1: if err := runValidate(cmd, []string{}); err != nil { return err }
BuildValidate(reloadErr, accessible, errors) ==
  /\ cli # None /\ cli.pc = "validate"
  /\ accessible <= cli.cfg.Schemas
  /\ cli' = AfterValidate(cli, runValidate(reloadErr, accessible, errors))
  /\ UNCHANGED <<regVars, fsVars, ld, vd, it, ty, js, cf>>

\* runGenAll up to its loop: the schemas are loaded with LoadPaths and
\* validated once; either can fail.
GenAllLoadOutcomes == {"ok", "failed to load schemas", "schema validation failed"}

\* Step 2 begins: runGenAll(cfg) is called and comes to its loop or returns
\* an error before it.
GenAllLoad(outcome) ==
  /\ cli # None /\ cli.pc = "genAll"
  /\ cli' = IF outcome = "ok"
              THEN [cli EXCEPT !.pc = "generate", !.genStarted = TRUE,
                               !.todo = DOMAIN cli.cfg.Generate]
            ELSE [cli EXCEPT !.pc = "done", !.genStarted = TRUE, !.genReturned = TRUE,
                             !.genErr = Wrap(outcome, "", Nil),
                             !.ret = Wrap(outcome, "", Nil)]
  /\ UNCHANGED <<regVars, fsVars, ld, vd, it, ty, js, cf>>

\* How one iteration of the loop of runGenAll can end for an enabled
\* generator.
GenOutcomes ==
  {"generator not registered", "validation failed", "generation failed",
   "failed to create output directory", "failed to write output file", "written"}

\* One iteration of for name, genCfg := range cfg.Generate.
GenAllGenerate(name, outcome) ==
  /\ cli # None /\ cli.pc = "generate"
  /\ name \in cli.todo
  /\ (outcome = "generator not registered") <=> (name \notin RegisteredNames)
  /\ cli' = IF ~cli.cfg.Generate[name].Enabled
              THEN [cli EXCEPT !.todo = @ \ {name}]
            ELSE IF outcome = "generator not registered"
              THEN [cli EXCEPT !.todo = @ \ {name},
                               !.genErrors = Append(@, name \o ": " \o outcome)]
            ELSE IF outcome = "written"
              THEN [cli EXCEPT !.todo = @ \ {name}, !.run = @ \cup {name},
                               !.written = @ \cup {name},
                               !.generated = Append(@, name)]
            ELSE [cli EXCEPT !.todo = @ \ {name}, !.run = @ \cup {name},
                             !.genErrors = Append(@, name \o ": " \o outcome)]
  /\ UNCHANGED <<regVars, fsVars, ld, vd, it, ty, js, cf>>

\* What runGenAll returns after its loop.
GenAllResult(genErrors) ==
  IF Len(genErrors) > 0 THEN Wrap("generation completed with error(s)", "", Nil) ELSE Nil

\* The loop has ended: runGenAll reports and returns, and runBuild returns
\* its error or nil.
GenAllReport ==
  /\ cli # None /\ cli.pc = "generate"
  /\ cli.todo = {}
  /\ cli' = [cli EXCEPT !.pc = "done", !.genReturned = TRUE,
                        !.genErr = GenAllResult(cli.genErrors),
                        !.ret = GenAllResult(cli.genErrors)]
  /\ UNCHANGED <<regVars, fsVars, ld, vd, it, ty, js, cf>>

BuildReturn ==
  /\ cli # None /\ cli.pc = "done"
  /\ cli' = None
  /\ UNCHANGED <<regVars, fsVars, ld, vd, it, ty, js, cf>>

BuildInit ==
  /\ RegParked /\ FsParked /\ ld = None /\ vd = None /\ it = None /\ GenParked

BuildNext ==
  \/ CallRunBuild
  \/ \E loaded \in ConfigLoadErrors \cup BuildConfigs : BuildLoadConfig(loaded)
  \/ \E reloadErr \in ConfigLoadErrors \cup {Nil}, accessible \in 0..MaxPaths,
        errors \in 0..MaxProblems :
       BuildValidate(reloadErr, accessible, errors)
  \/ \E outcome \in GenAllLoadOutcomes : GenAllLoad(outcome)
  \/ \E name \in BuildTargets, outcome \in GenOutcomes : GenAllGenerate(name, outcome)
  \/ GenAllReport
  \/ BuildReturn

SpecBuild == BuildInit /\ [][BuildNext]_vars

----------------------------------------------------------------------------
(* Properties of the build command *)

BuildDone == cli # None /\ cli.pc = "done"

\* C19: runGenAll is started only after runValidate has returned without
\* error; runBuild returns nil only if runValidate and runGenAll both
\* returned nil; and once runValidate has returned an error, runGenAll is
\* never started, no generator is run and no output file is written.
C19_GenerateOnlyAfterValidation ==
  cli # None
    => /\ cli.genStarted => (cli.validated /\ cli.valErr = Nil)
       /\ (cli.pc = "done" /\ cli.ret = Nil)
            => /\ cli.validated /\ cli.valErr = Nil
               /\ cli.genReturned /\ cli.genErr = Nil
       /\ (cli.validated /\ cli.valErr # Nil)
            => /\ ~cli.genStarted /\ cli.run = {} /\ cli.written = {}
               /\ cli.pc = "done" /\ cli.ret = cli.valErr

\* runBuild has returned the error of a failed validation for a
\* configuration with an enabled, registered generator.
C19_Witness ==
  /\ BuildDone
  /\ cli.validated /\ cli.valErr # Nil /\ cli.ret = cli.valErr
  /\ "jsonschema" \in DOMAIN cli.cfg.Generate
  /\ cli.cfg.Generate["jsonschema"].Enabled
  /\ cli.run = {} /\ cli.written = {}

\* runBuild has returned nil after a generator wrote its output.
BuildSucceeded ==
  BuildDone /\ cli.ret = Nil /\ cli.written = {"jsonschema"}

----------------------------------------------------------------------------
(* Configuration (internal/config): UpdateGenerators *)

\* allGenerators, in the order of the loop.
allGenerators == <<"typescript", "zod", "jsonschema", "go", "elixir">>

\* Options maps: none, the two defaults, and one a user wrote.
NoOptions == [k \in {} |-> ""]
CustomOptions == [package |-> "model"]

\* The GenConfig the switch of UpdateGenerators adds for a name.
DefaultGenConfig(gen) ==
  CASE gen = "typescript" ->
         [Enabled |-> TRUE, Output |-> "generated/types.ts", Options |-> NoOptions]
    [] gen = "zod" ->
         [Enabled |-> TRUE, Output |-> "generated/schemas.ts", Options |-> NoOptions]
    [] gen = "jsonschema" ->
         [Enabled |-> TRUE, Output |-> "generated/schema.json", Options |-> NoOptions]
    [] gen = "go" ->
         [Enabled |-> TRUE, Output |-> "generated/types.go",
          Options |-> [package |-> "types"]]
    [] gen = "elixir" ->
         [Enabled |-> TRUE, Output |-> "generated/types.ex",
          Options |-> [module |-> "MyApp.Types"]]

\* The names a configuration file has entries for: two of the known ones
\* and one UpdateGenerators does not know.
ConfiguredNames == {"typescript", "go", "rust"}

\* Entries as a user may have them in platosl.yaml.
GenConfigs ==
  [Enabled : BOOLEAN, Output : {"generated/out"}, Options : {NoOptions}]
    \cup [Enabled : BOOLEAN, Output : {"lib/model.out"}, Options : {CustomOptions}]

\* cfg.Generate as config.Load returns it: a map, never nil.
GenerateMaps == UNION {[T -> GenConfigs] : T \in SUBSET ConfiguredNames}

\* The selections: lists of names, known or not, repeated or not.
SelectableNames == {"typescript", "go", "rust"}
Selections == SeqsUpTo(SelectableNames, MaxSelected)

\* selectedMap[gen], for the list of names given as generators
Selected(selected, gen) == \E i \in 1..Len(selected) : selected[i] = gen

\* cfg.Generate[gen] = value
WithGenConfig(generate, gen, value) ==
  [n \in DOMAIN generate \cup {gen} |-> IF n = gen THEN value ELSE generate[n]]

\* The loop body writing the defaults over an entry that exists.
UpdateOne_ResetsExisting(generate, selected, gen) ==
  IF gen \in DOMAIN generate
    THEN WithGenConfig(generate, gen,
                       [DefaultGenConfig(gen) EXCEPT !.Enabled = Selected(selected, gen)])
  ELSE IF Selected(selected, gen)
    THEN WithGenConfig(generate, gen, DefaultGenConfig(gen))
  ELSE generate

\* The body of the loop of UpdateGenerators for one name.
UpdateOne(generate, selected, gen) ==
  IF gen \in DOMAIN generate
    THEN WithGenConfig(generate, gen,
                       [generate[gen] EXCEPT !.Enabled = Selected(selected, gen)])
  ELSE IF Selected(selected, gen)
    THEN WithGenConfig(generate, gen, DefaultGenConfig(gen))
  ELSE generate

\* UpdateGenerators(cfg, generators) is called; the loop has not begun.
UpdateStarted(generate, selected, first) ==
  [pc |-> "loop", before |-> generate, generate |-> generate, selected |-> selected,
   i |-> 1, first |-> first]

CallUpdateGenerators(generate, selected) ==
  /\ cf = None
  /\ cf' = UpdateStarted(generate, selected, None)
  /\ UNCHANGED <<regVars, fsVars, ld, vd, it, ty, js, cli>>

\* One iteration of for _, gen := range allGenerators.
UpdateStep ==
  /\ cf # None /\ cf.pc = "loop"
  /\ cf.i <= Len(allGenerators)
  /\ cf' = [cf EXCEPT !.generate = UpdateOne(cf.generate, cf.selected, allGenerators[cf.i]),
                      !.i = @ + 1]
  /\ UNCHANGED <<regVars, fsVars, ld, vd, it, ty, js, cli>>

\* return cfg
UpdateReturn ==
  /\ cf # None /\ cf.pc = "loop"
  /\ cf.i > Len(allGenerators)
  /\ cf' = [cf EXCEPT !.pc = "done"]
  /\ UNCHANGED <<regVars, fsVars, ld, vd, it, ty, js, cli>>

\* UpdateGenerators is called again on the configuration it returned, with
\* the same selection; what the first call returned is kept for comparison.
UpdateAgain ==
  /\ cf # None /\ cf.pc = "done"
  /\ cf.first = None
  /\ cf' = UpdateStarted(cf.generate, cf.selected,
                         [before |-> cf.before, generate |-> cf.generate])
  /\ UNCHANGED <<regVars, fsVars, ld, vd, it, ty, js, cli>>

ConfigReturn ==
  /\ cf # None /\ cf.pc = "done"
  /\ cf' = None
  /\ UNCHANGED <<regVars, fsVars, ld, vd, it, ty, js, cli>>

ConfigInit ==
  /\ RegParked /\ FsParked /\ ld = None /\ vd = None /\ it = None /\ GenParked

ConfigNext ==
  \/ \E generate \in GenerateMaps, selected \in Selections :
       CallUpdateGenerators(generate, selected)
  \/ UpdateStep
  \/ UpdateReturn
  \/ UpdateAgain
  \/ ConfigReturn

SpecConfig == ConfigInit /\ [][ConfigNext]_vars

----------------------------------------------------------------------------
(* Properties of UpdateGenerators *)

UpdateDone == cf # None /\ cf.pc = "done"

KnownNames == {"typescript", "zod", "jsonschema", "go", "elixir"}

\* The default output and options of each known name.
DefaultOutput ==
  [typescript |-> "generated/types.ts", zod |-> "generated/schemas.ts",
   jsonschema |-> "generated/schema.json", go |-> "generated/types.go",
   elixir |-> "generated/types.ex"]
DefaultOptions ==
  [typescript |-> NoOptions, zod |-> NoOptions, jsonschema |-> NoOptions,
   go |-> [package |-> "types"], elixir |-> [module |-> "MyApp.Types"]]

InSelection(name) == \E i \in 1..Len(cf.selected) : cf.selected[i] = name

\* What the statement says of one known name, between the configuration
\* before the call and the one after it.
KnownNameUpdated(before, after, name) ==
  IF name \in DOMAIN before
    THEN /\ name \in DOMAIN after
         /\ after[name].Enabled = InSelection(name)
         /\ after[name].Output = before[name].Output
         /\ after[name].Options = before[name].Options
  ELSE IF InSelection(name)
    THEN /\ name \in DOMAIN after
         /\ after[name].Enabled
         /\ after[name].Output = DefaultOutput[name]
         /\ after[name].Options = DefaultOptions[name]
  ELSE name \notin DOMAIN after

\* What it says of every other name.
OtherNamesUnchanged(before, after) ==
  /\ DOMAIN after \ KnownNames = DOMAIN before \ KnownNames
  /\ \A name \in DOMAIN before \ KnownNames : after[name] = before[name]

\* C20: when UpdateGenerators returns, each of the five known names has its
\* existing entry with Enabled set to whether it is selected and Output and
\* Options unchanged, or a new default entry, enabled, if it was missing and
\* is selected, or no entry; entries under other names are unchanged; and a
\* second call with the same selection returns the configuration the first
\* call returned.
C20_UpdateGeneratorsFrame ==
  UpdateDone
    => /\ \A name \in KnownNames : KnownNameUpdated(cf.before, cf.generate, name)
       /\ OtherNamesUnchanged(cf.before, cf.generate)
       /\ cf.first # None => cf.generate = cf.first.generate

\* A second call has returned for a configuration with a go entry of the
\* user's own, an entry under an unknown name, no typescript entry, and the
\* selection typescript.
C20_Witness ==
  /\ UpdateDone
  /\ cf.first # None
  /\ cf.selected = <<"typescript">>
  /\ DOMAIN cf.first.before = {"go", "rust"}
  /\ cf.first.before["go"] =
       [Enabled |-> TRUE, Output |-> "lib/model.out", Options |-> CustomOptions]
  /\ cf.generate["go"] =
       [Enabled |-> FALSE, Output |-> "lib/model.out", Options |-> CustomOptions]
  /\ cf.generate["typescript"] = DefaultGenConfig("typescript")
  /\ cf.generate["rust"] = cf.first.before["rust"]

----------------------------------------------------------------------------
(* extractPath and generateSuggestion on their own *)

\* Words of engine messages, the keywords of generateSuggestion among them
\* in several spellings.
MessageWords ==
  {"Concrete", "CONFLICTING", "conflict", "incomplete", "Reference", "cannot use",
   "cannot", " value "}
RECURSIVE Concat(_)
Concat(words) == IF words = <<>> THEN "" ELSE Head(words) \o Concat(Tail(words))
SuggestionMessages == {Concat(q) : q \in SeqsUpTo(MessageWords, MaxWords)}

\* Messages with and without a colon, and what can stand before it.
PathPrefixes == {"", "port", " port", "port ", "a b", "a\tb", " ", "#Limits.max"}
PathRests == {"", ":", ": conflicting values", ": a: b"}
PathMessages == {prefix \o rest : prefix \in PathPrefixes, rest \in PathRests}

EngineMessages == SuggestionMessages \cup PathMessages

CallGenerateSuggestion(msg) ==
  /\ vd = None
  /\ vd' = [pc |-> "returned", op |-> "generateSuggestion", msg |-> msg,
            out |-> generateSuggestion(msg)]
  /\ UNCHANGED <<regVars, fsVars, ld, it, genVars>>

CallExtractPath(msg) ==
  /\ vd = None
  /\ vd' = [pc |-> "returned", op |-> "extractPath", msg |-> msg, out |-> extractPath(msg)]
  /\ UNCHANGED <<regVars, fsVars, ld, it, genVars>>

HelperReturn ==
  /\ vd # None /\ vd.pc = "returned"
  /\ vd' = None
  /\ UNCHANGED <<regVars, fsVars, ld, it, genVars>>

MessagesInit == RegParked /\ FsParked /\ ld = None /\ vd = None /\ it = None /\ GenParked

MessagesNext ==
  \/ \E msg \in EngineMessages : CallGenerateSuggestion(msg)
  \/ \E msg \in EngineMessages : CallExtractPath(msg)
  \/ HelperReturn

SpecMessages == MessagesInit /\ [][MessagesNext]_vars

----------------------------------------------------------------------------
(* Properties of extractPath and generateSuggestion *)

Returned(op) == vd # None /\ vd.pc = "returned" /\ vd.op = op

\* The keywords in the order the statement gives, each with its suggestion.
KeywordOrder ==
  << [keywords |-> {"concrete"}, suggestion |-> ConcreteSuggestion],
     [keywords |-> {"conflict", "conflicting"}, suggestion |-> ConflictSuggestion],
     [keywords |-> {"incomplete"}, suggestion |-> IncompleteSuggestion],
     [keywords |-> {"reference"}, suggestion |-> ReferenceSuggestion],
     [keywords |-> {"cannot use"}, suggestion |-> CannotUseSuggestion] >>

\* The places of KeywordOrder with a keyword that occurs in the text.
KeywordHits(lower) ==
  {i \in 1..Len(KeywordOrder) : \E k \in KeywordOrder[i].keywords : Contains(lower, k)}

\* C24: generateSuggestion returns the suggestion of the first keyword, in
\* the order concrete, conflict(ing), incomplete, reference, cannot use, that
\* occurs in the lower-cased message, and the empty string when none occurs.
C24_FirstKeywordSuggestion ==
  Returned("generateSuggestion")
    => IF KeywordHits(ToLower(vd.msg)) = {} THEN vd.out = ""
       ELSE vd.out =
              KeywordOrder[CHOOSE i \in KeywordHits(ToLower(vd.msg)) :
                             \A j \in KeywordHits(ToLower(vd.msg)) : i <= j].suggestion

\* A message with "Reference" before "Concrete", neither in lower case, got
\* the suggestion of concrete.
C24_Witness ==
  /\ Returned("generateSuggestion")
  /\ vd.msg = "ReferenceConcrete"
  /\ vd.out = ConcreteSuggestion

AllWhite(text) == \A i \in 1..Len(text) : SubSeq(text, i, i) \in WhiteSpace
AnyWhite(text) == \E i \in 1..Len(text) : SubSeq(text, i, i) \in WhiteSpace

\* The text before the first colon of a message that has one.
BeforeColon(msg) == SubSeq(msg, 1, Index(msg, ":") - 1)

\* C25, as stated: extractPath returns the text before the first colon when
\* that text is not empty and holds no white space, and the empty path for
\* every other message.
C25_PrefixWithoutWhiteSpace ==
  Returned("extractPath")
    => IF Index(vd.msg, ":") > 1 /\ ~AnyWhite(BeforeColon(vd.msg))
         THEN vd.out = BeforeColon(vd.msg)
       ELSE vd.out = ""

Substrings(text) == {SubSeq(text, i, j) : i \in 1..(Len(text) + 1), j \in 0..Len(text)}

\* t is text without the white space around it.
IsTrimmed(t, text) ==
  \E i \in 1..(Len(text) + 1), j \in 0..Len(text) :
    /\ t = SubSeq(text, i, j)
    /\ AllWhite(SubSeq(text, 1, i - 1))
    /\ AllWhite(SubSeq(text, j + 1, Len(text)))
    /\ (t = "" \/ (~AnyWhite(SubSeq(t, 1, 1)) /\ ~AnyWhite(SubSeq(t, Len(t), Len(t)))))

\* C25, amended: for a message whose first colon is not its first character,
\* extractPath returns the text before that colon with the white space around
\* it removed, when what is left holds no space character (a tab inside it
\* does not count), and the empty path when it does; for every other message
\* it returns the empty path.
C25_TrimmedPrefixWithoutSpace ==
  Returned("extractPath")
    => IF Index(vd.msg, ":") > 1
         THEN \E t \in Substrings(BeforeColon(vd.msg)) :
                /\ IsTrimmed(t, BeforeColon(vd.msg))
                /\ vd.out = IF Contains(t, " ") THEN "" ELSE t
       ELSE vd.out = ""

\* A message with a space before its path got the path without the space.
C25_Witness ==
  /\ Returned("extractPath")
  /\ vd.msg = " port: conflicting values"
  /\ vd.out = "port"

----------------------------------------------------------------------------
(* Validator: the shape of every result *)

\* The atomic errors of the check that failed: those of val.Err() when there
\* are any, else those of val.Validate.
FailingCheckErrors(val, strict) ==
  IF ErrorsOf(val, {"fatal"}, 1) # <<>> THEN ErrorsOf(val, {"fatal"}, 1)
  ELSE ErrorsOf(val, IF strict THEN {"fatal", "nested", "incomplete"}
                               ELSE {"fatal", "nested"}, 1)

\* C28: in every ValidationResult Validate returns, Valid is true exactly
\* when Errors is empty, and when Valid is false Errors has one
\* ValidationError per atomic engine error of the failing check, in the
\* engine's order (the i-th at the position of the i-th engine error).
C28_ValidIffNoErrors ==
  ValidateDone
    => /\ vd.result.Valid <=> (Len(vd.result.Errors) = 0)
       /\ ~vd.result.Valid
            => /\ Len(vd.result.Errors) = Len(FailingCheckErrors(vd.val, vd.strict))
               /\ \A i \in 1..Len(vd.result.Errors) :
                    /\ vd.result.Errors[i].File = FailingCheckErrors(vd.val, vd.strict)[i].file
                    /\ vd.result.Errors[i].Line = FailingCheckErrors(vd.val, vd.strict)[i].line
                    /\ vd.result.Errors[i].Column =
                         FailingCheckErrors(vd.val, vd.strict)[i].column

\* A value without an error of its own whose concrete check reports two
\* errors: the result is invalid with both, in order.
C28_Witness ==
  /\ ValidateDone
  /\ vd.concreteRan
  /\ ~vd.result.Valid
  /\ Len(vd.result.Errors) = 2
  /\ vd.result.Errors[1].Line = 1
  /\ vd.result.Errors[2].Line = 2

----------------------------------------------------------------------------
(* Registry: concurrent registration of one name *)

\* C27: of the Register calls for one name, concurrent or not, that meet a
\* registry without the name, one returns nil and every other returns the
\* already-registered error: a call about to return nil is the first
\* successful one for its name and has bound the name to its generator, and
\* a call about to return while an earlier one has succeeded returns the
\* error and finds the name bound to the generator of the successful call.
C27_OneRegisterWins ==
  \A p \in Procs :
    pc[p] = "reg_unlock" =>
      IF firstReg[Name(arg[p])] = None
        THEN /\ ret[p] = Nil
             /\ generators[Name(arg[p])] = arg[p]
             /\ \A q \in Procs \ {p} : pc[q] = "reg_unlock" => Name(arg[q]) # Name(arg[p])
        ELSE /\ ret[p] = ErrAlreadyRegistered(Name(arg[p]))
             /\ generators[Name(arg[p])] = firstReg[Name(arg[p])]

\* Two calls for one name with different generators are in progress on a
\* registry that had no such name: one is about to return nil, the other
\* still waits for the lock.
C27_Witness ==
  \E p, q \in Procs :
    /\ p # q
    /\ pc[p] = "reg_unlock" /\ ret[p] = Nil
    /\ firstReg[Name(arg[p])] = None
    /\ pc[q] = "reg_lock"
    /\ Name(arg[q]) = Name(arg[p])
    /\ arg[q] # arg[p]

----------------------------------------------------------------------------
(* The validate command (internal/cli): runValidate step by step *)

\* What loading and validating one expanded path (a file, or a directory
\* with .cue files) comes to.
UnitOutcomes == {"load fails", "valid", "one error", "two errors"}

\* The ValidationErrors the Validator returns for a loaded unit.
UnitErrors(outcome) ==
  IF outcome = "one error" THEN 1 ELSE IF outcome = "two errors" THEN 2 ELSE 0

\* A schema path as the command meets it:
\*   "missing"    os.Stat fails with a not-exist error
\*   "denied"     os.Stat fails with another error
\*   "unscannable"  a directory findCuePackages cannot walk
\*   "file"       a file, or a directory whose .cue files are its own: one unit
\*   "dir"        a directory with two package directories below it
SchemaPaths ==
  {[kind |-> k, units |-> <<>>] : k \in {"missing", "denied", "unscannable"}}
    \cup {[kind |-> "file", units |-> <<u>>] : u \in UnitOutcomes}
    \cup {[kind |-> "dir", units |-> <<u, v>>] :
            u \in UnitOutcomes \ {"two errors"}, v \in UnitOutcomes \ {"two errors"}}

\* cfg.Schemas as config.Load returns it: at least one path.
SchemaLists == SeqsUpTo(SchemaPaths, MaxPaths) \ {<<>>}

\* A call of runValidate at its first statement.  args is the path argument
\* (a sequence of at most one path), schemas what the configuration lists,
\* loadErr the error of config.Load if it fails.
ValidateStarted(args, schemas, loadErr) ==
  [op |-> "runValidate", pc |-> "paths", args |-> args, schemas |-> schemas,
   loadErr |-> loadErr, useConfig |-> FALSE, paths |-> <<>>, expandedPaths |-> <<>>,
   i |-> 1, allErrors |-> <<>>, attempted |-> <<>>, validatedFiles |-> 0, ret |-> None]

CallRunValidate(args, schemas, loadErr) ==
  /\ cli = None
  /\ cli' = ValidateStarted(args, schemas, loadErr)
  /\ UNCHANGED <<regVars, fsVars, ld, vd, it, ty, js, cf>>

\* The configured paths os.Stat can reach, in order (lines 74-81: the
\* others are reported with PrintError and skipped).
RECURSIVE Accessible(_)
Accessible(schemas) ==
  IF schemas = <<>> THEN <<>>
  ELSE (IF Head(schemas).kind \in {"missing", "denied"} THEN <<>> ELSE <<Head(schemas)>>)
       \o Accessible(Tail(schemas))

\* runValidate up to the creation of the loader: the paths to validate are
\* determined, or the command returns early.
ValidatePathsFrom(call, listed) ==
  IF Len(call.args) > 0
    THEN IF call.args[1].kind = "missing"
           THEN [call EXCEPT !.pc = "done",
                             !.ret = Wrap("path does not exist", "", Nil)]
         ELSE [call EXCEPT !.pc = "expand", !.paths = call.args]
  ELSE IF call.loadErr # Nil
    THEN [call EXCEPT !.pc = "done", !.useConfig = TRUE, !.ret = call.loadErr]
  ELSE IF Len(listed) = 0
    THEN [call EXCEPT !.pc = "done", !.useConfig = TRUE,
                      !.ret = Wrap("no schema paths configured in platosl.yaml", "", Nil)]
  ELSE [call EXCEPT !.pc = "expand", !.useConfig = TRUE, !.paths = listed]

ValidatePaths ==
  /\ cli # None /\ cli.op = "runValidate" /\ cli.pc = "paths"
  /\ cli' = ValidatePathsFrom(cli, Accessible(cli.schemas))
  /\ UNCHANGED <<regVars, fsVars, ld, vd, it, ty, js, cf>>

\* One ValidationError or load error of the collected list: the path (its
\* place in paths), the unit below it (0 for the path itself) and what it is.
Collected(path, unit, what) == [path |-> path, unit |-> unit, what |-> what]

\* The expanded paths of one path: its place in paths and the unit.
RECURSIVE UnitsOf(_, _, _)
UnitsOf(path, units, j) ==
  IF j > Len(units) THEN <<>>
  ELSE <<[path |-> path, unit |-> j, outcome |-> units[j]]>> \o UnitsOf(path, units, j + 1)

\* One iteration of the loop that expands directories (lines 100-129).
ExpandOne(call, path) ==
  IF path.kind \in {"missing", "denied"}
    THEN [call EXCEPT !.i = @ + 1,
                      !.allErrors = Append(@, Collected(call.i, 0, "cannot access"))]
  ELSE IF path.kind = "unscannable"
    THEN [call EXCEPT !.i = @ + 1,
                      !.allErrors = Append(@, Collected(call.i, 0, "failed to scan directory"))]
  ELSE [call EXCEPT !.i = @ + 1,
                    !.expandedPaths = @ \o UnitsOf(call.i, path.units, 1)]

ValidateExpand ==
  /\ cli # None /\ cli.op = "runValidate" /\ cli.pc = "expand"
  /\ cli' = IF cli.i <= Len(cli.paths)
              THEN ExpandOne(cli, cli.paths[cli.i])
            ELSE [cli EXCEPT !.pc = "validate", !.i = 1]
  /\ UNCHANGED <<regVars, fsVars, ld, vd, it, ty, js, cf>>

\* The errors one loaded unit adds to the list: one per ValidationError.
RECURSIVE ValidationErrorsOf(_, _, _)
ValidationErrorsOf(unit, n, k) ==
  IF k > n THEN <<>>
  ELSE <<Collected(unit.path, unit.unit, "validation error")>>
       \o ValidationErrorsOf(unit, n, k + 1)

\* The loop body that ends the loop at the first unit that fails.
LoadAndValidateOne_FailFast(call, unit) ==
  IF unit.outcome = "load fails"
    THEN [call EXCEPT !.i = Len(call.expandedPaths) + 1, !.attempted = Append(@, unit),
                      !.allErrors = Append(@, Collected(unit.path, unit.unit, "failed to load"))]
  ELSE [call EXCEPT !.i = IF UnitErrors(unit.outcome) > 0
                            THEN Len(call.expandedPaths) + 1 ELSE @ + 1,
                    !.attempted = Append(@, unit),
                    !.validatedFiles = @ + 1,
                    !.allErrors = @ \o ValidationErrorsOf(unit, UnitErrors(unit.outcome), 1)]

\* One iteration of the loop that loads and validates (lines 132-172).
LoadAndValidateOne(call, unit) ==
  IF unit.outcome = "load fails"
    THEN [call EXCEPT !.i = @ + 1, !.attempted = Append(@, unit),
                      !.allErrors = Append(@, Collected(unit.path, unit.unit, "failed to load"))]
  ELSE [call EXCEPT !.i = @ + 1, !.attempted = Append(@, unit),
                    !.validatedFiles = @ + 1,
                    !.allErrors = @ \o ValidationErrorsOf(unit, UnitErrors(unit.outcome), 1)]

ValidateLoadOne ==
  /\ cli # None /\ cli.op = "runValidate" /\ cli.pc = "validate"
  /\ cli.i <= Len(cli.expandedPaths)
  /\ cli' = LoadAndValidateOne(cli, cli.expandedPaths[cli.i])
  /\ UNCHANGED <<regVars, fsVars, ld, vd, it, ty, js, cf>>

\* Report results (lines 174-191).
ValidateReport ==
  /\ cli # None /\ cli.op = "runValidate" /\ cli.pc = "validate"
  /\ cli.i > Len(cli.expandedPaths)
  /\ cli' = [cli EXCEPT !.pc = "done",
                        !.ret = IF Len(cli.allErrors) > 0
                                  THEN Wrap("found error(s)", "", Nil) ELSE Nil]
  /\ UNCHANGED <<regVars, fsVars, ld, vd, it, ty, js, cf>>

RunValidateReturn ==
  /\ cli # None /\ cli.op = "runValidate" /\ cli.pc = "done"
  /\ cli' = None
  /\ UNCHANGED <<regVars, fsVars, ld, vd, it, ty, js, cf>>

RunValidateInit ==
  /\ RegParked /\ FsParked /\ ld = None /\ vd = None /\ it = None /\ GenParked

RunValidateNext ==
  \/ \E path \in SchemaPaths : CallRunValidate(<<path>>, <<>>, Nil)
  \/ \E schemas \in SchemaLists : CallRunValidate(<<>>, schemas, Nil)
  \/ \E loadErr \in ConfigLoadErrors : CallRunValidate(<<>>, <<>>, loadErr)
  \/ ValidatePaths
  \/ ValidateExpand
  \/ ValidateLoadOne
  \/ ValidateReport
  \/ RunValidateReturn

SpecRunValidate == RunValidateInit /\ [][RunValidateNext]_vars

----------------------------------------------------------------------------
(* Properties of the validate command *)

\* runValidate has returned from its report, after both loops.
RunValidateReported ==
  cli # None /\ cli.op = "runValidate" /\ cli.pc = "done" /\ Len(cli.paths) > 0

\* The entries of the collected list for one unit (0: the path itself).
CollectedFor(path, unit) ==
  {k \in 1..Len(cli.allErrors) :
     cli.allErrors[k].path = path /\ cli.allErrors[k].unit = unit}

\* The entries one unit is due: one for a failed load, else one per
\* ValidationError.
DueFor(outcome) == IF outcome = "load fails" THEN 1 ELSE UnitErrors(outcome)

\* C21: runValidate is not fail-fast.  Every unit of every path that could
\* be expanded was loaded (and validated when the load succeeded), whatever
\* happened to the ones before it; the collected list has one entry for
\* every path that could not be accessed or scanned, one for every failed
\* load and one for every ValidationError; and the command returns an error
\* exactly when the list is not empty.
C21_CollectsAllErrors ==
  RunValidateReported
    => /\ \A a \in 1..Len(cli.paths) :
            IF cli.paths[a].kind \in {"missing", "denied", "unscannable"}
              THEN Cardinality(CollectedFor(a, 0)) = 1
            ELSE \A j \in 1..Len(cli.paths[a].units) :
                   /\ \E k \in 1..Len(cli.attempted) :
                        /\ cli.attempted[k].path = a
                        /\ cli.attempted[k].unit = j
                   /\ Cardinality(CollectedFor(a, j)) = DueFor(cli.paths[a].units[j])
       /\ \A k \in 1..Len(cli.allErrors) :
            /\ cli.allErrors[k].path \in 1..Len(cli.paths)
            /\ cli.allErrors[k].unit \in 0..Len(cli.paths[cli.allErrors[k].path].units)
       /\ (cli.ret # Nil) <=> (Len(cli.allErrors) > 0)

\* A first path that failed to load and a second with two validation
\* errors: all three are in the list.
C21_Witness ==
  /\ RunValidateReported
  /\ Len(cli.paths) = 2
  /\ cli.paths[1].units = <<"load fails">>
  /\ cli.paths[2].units = <<"two errors">>
  /\ Len(cli.attempted) = 2
  /\ Len(cli.allErrors) = 3
  /\ cli.ret # Nil

\* C29, as stated: run without a path argument, runValidate returns nil
\* only if every path the configuration lists was accessible and was loaded
\* and validated without error.
C29_EveryListedPathValid ==
  (cli # None /\ cli.op = "runValidate" /\ cli.pc = "done"
     /\ Len(cli.args) = 0 /\ cli.ret = Nil)
    => \A a \in 1..Len(cli.schemas) :
         /\ cli.schemas[a].kind \in {"file", "dir"}
         /\ \A j \in 1..Len(cli.schemas[a].units) : cli.schemas[a].units[j] = "valid"

\* What holds instead: nil is returned only if every listed path that could
\* be stat-ed was scanned, loaded and validated without error, and at least
\* one could be stat-ed.
C29_EveryAccessiblePathValid ==
  (cli # None /\ cli.op = "runValidate" /\ cli.pc = "done"
     /\ Len(cli.args) = 0 /\ cli.ret = Nil)
    => /\ \E a \in 1..Len(cli.schemas) : cli.schemas[a].kind \notin {"missing", "denied"}
       /\ \A a \in 1..Len(cli.schemas) :
            cli.schemas[a].kind \notin {"missing", "denied"}
              => /\ cli.schemas[a].kind \in {"file", "dir"}
                 /\ \A j \in 1..Len(cli.schemas[a].units) : cli.schemas[a].units[j] = "valid"

\* The configuration lists a valid file and a path that does not exist, and
\* runValidate returned nil.
C29_Witness ==
  /\ cli # None /\ cli.op = "runValidate" /\ cli.pc = "done"
  /\ Len(cli.args) = 0
  /\ Len(cli.schemas) = 2
  /\ cli.schemas[1] = [kind |-> "file", units |-> <<"valid">>]
  /\ cli.schemas[2].kind = "missing"
  /\ cli.ret = Nil

----------------------------------------------------------------------------
(* The gen commands (internal/cli): runGenerator and runGenAll step by step *)

\* The generators runGenZod, runGenJsonSchema, runGenGo and runGenElixir
\* pass to runGenerator; two of them are followed here.
GeneratorCommands == {"go", "jsonschema"}

\* The names under generate: in platosl.yaml; rust has no generator.
GenTargets == {"go", "rust"}

\* An options map of platosl.yaml with two keys.
TaggedOptions == [package |-> "model", tags |-> "json"]

\* The options runGenGo passes: none, or the --package flag.
CommandOptions(name) ==
  IF name = "go" THEN {NoOptions, [package |-> "api"]} ELSE {NoOptions}

\* The --output flag: not given, or a path.
OutputFlags == {"", "custom/out.txt"}

\* The entries of generate: in platosl.yaml; output: and options: may be
\* left out, which gives "" and a nil map.
GenEntries ==
  [Enabled : BOOLEAN, Output : {"", "out/api.txt"}, Options : {Nil, TaggedOptions}]

\* What config.Load returned for the gen commands.
GenFileConfigs ==
  UNION {[Name : {"shop"}, Schemas : 1..MaxPaths, Generate : [T -> GenEntries]] :
           T \in SUBSET GenTargets}

getDefaultOutput(generatorName) ==
  CASE generatorName = "typescript" -> "types.ts"
    [] generatorName = "zod" -> "schemas.ts"
    [] generatorName = "jsonschema" -> "schema.json"
    [] generatorName = "go" -> "types.go"
    [] generatorName = "elixir" -> "types.ex"
    [] OTHER -> "output.txt"

\* for k, v := range opts { genCfg.Options[k] = v }
MergeOptions(options, opts) ==
  [k \in DOMAIN options \cup DOMAIN opts |->
     IF k \in DOMAIN opts THEN opts[k] ELSE options[k]]

\* runGenerator ignoring the --output flag.
WithOutputFlag_IgnoresFlag(genCfg, genOutput) == genCfg

\* if genOutput != "" { genCfg.Output = genOutput }
WithOutputFlag(genCfg, genOutput) ==
  IF genOutput # "" THEN [genCfg EXCEPT !.Output = genOutput] ELSE genCfg

\* if genCfg.Options == nil { genCfg.Options = make(...) }, then the merge.
WithOptions(genCfg, opts) ==
  [genCfg EXCEPT !.Options = MergeOptions(IF @ = Nil THEN NoOptions ELSE @, opts)]

\* The GenConfig runGenerator works with: the entry of the configuration
\* or, without one, the default; then the flag and the options.
EffectiveGenConfig(cfg, name, opts, genOutput) ==
  LET genCfg == IF name \in DOMAIN cfg.Generate THEN cfg.Generate[name]
                ELSE [Enabled |-> TRUE,
                      Output |-> "generated/" \o getDefaultOutput(name),
                      Options |-> NoOptions]
  IN WithOptions(WithOutputFlag(genCfg, genOutput), opts)

\* A call of a gen command that has not done anything yet.
GenStarted(op, name, opts, genOutput) ==
  [op |-> op, pc |-> "config", name |-> name, opts |-> opts, genOutput |-> genOutput,
   cfg |-> Nil, genCfg |-> Nil,
   loadCalled |-> FALSE, loaded |-> FALSE, checked |-> FALSE, schemaErrors |-> 0,
   todo |-> {}, cur |-> "",
   lookedUp |-> {}, validateCalled |-> {}, validateOk |-> {},
   generateCalled |-> {}, generateOk |-> {},
   dirs |-> {}, written |-> {}, files |-> {},
   genErrors |-> <<>>, generated |-> <<>>, ret |-> None]

CallRunGenerator(name, opts, genOutput) ==
  /\ cli = None
  /\ cli' = GenStarted("runGenerator", name, opts, genOutput)
  /\ UNCHANGED <<regVars, fsVars, ld, vd, it, ty, js, cf>>

\* runGenAll(cfg) is called by runBuild with the configuration it loaded.
CallRunGenAll(cfg) ==
  /\ cli = None
  /\ cli' = [GenStarted("runGenAll", "", NoOptions, "") EXCEPT
               !.pc = "load", !.cfg = cfg, !.todo = DOMAIN cfg.Generate]
  /\ UNCHANGED <<regVars, fsVars, ld, vd, it, ty, js, cf>>

\* A gen command returning err.
GenFail(call, msg) == [call EXCEPT !.pc = "done", !.ret = Wrap(msg, "", Nil)]

\* runGenerator from config.Load to the test of the output path.
GenConfigured(call, loaded) ==
  IF loaded \in ConfigLoadErrors THEN [call EXCEPT !.pc = "done", !.ret = loaded]
  ELSE LET genCfg == EffectiveGenConfig(loaded, call.name, call.opts, call.genOutput)
           next == [call EXCEPT !.cfg = loaded, !.genCfg = genCfg]
       IN IF genCfg.Output = "" THEN GenFail(next, "no output file specified")
          ELSE [next EXCEPT !.pc = "load"]

GenLoadConfig(loaded) ==
  /\ cli # None /\ cli.pc = "config"
  /\ cli' = GenConfigured(cli, loaded)
  /\ UNCHANGED <<regVars, fsVars, ld, vd, it, ty, js, cf>>

\* How the commands get from the schema paths to a loaded value: a path
\* that does not exist stops loadAndValidateSchemas (runGenAll does not
\* look), and LoadPaths fails or returns the value.
SchemaLoadOutcomes == {"schema path not found", "failed to load schemas", "loaded"}

\* The commands going on to validate whatever LoadPaths returned.
AfterLoadPaths_IgnoresError(call, outcome) ==
  [call EXCEPT !.pc = "check", !.loadCalled = TRUE, !.loaded = (outcome = "loaded")]

\* The schema paths are collected and handed to loader.LoadPaths.
AfterLoadPaths(call, outcome) ==
  IF call.cfg.Schemas = 0 THEN GenFail(call, "no schema paths configured")
  ELSE IF outcome = "schema path not found" THEN GenFail(call, outcome)
  ELSE IF outcome = "failed to load schemas"
    THEN [GenFail(call, outcome) EXCEPT !.loadCalled = TRUE]
  ELSE [call EXCEPT !.pc = "check", !.loadCalled = TRUE, !.loaded = TRUE]

GenLoadPaths(outcome) ==
  /\ cli # None /\ cli.pc = "load"
  /\ (outcome = "schema path not found") => (cli.op = "runGenerator")
  /\ cli' = AfterLoadPaths(cli, outcome)
  /\ UNCHANGED <<regVars, fsVars, ld, vd, it, ty, js, cf>>

\* The commands going on to the generators whatever validateSchemas found.
AfterValidateSchemas_IgnoresErrors(call, errors) ==
  [call EXCEPT !.pc = IF call.op = "runGenAll" THEN "pick" ELSE "get",
               !.checked = TRUE, !.schemaErrors = errors,
               !.cur = IF call.op = "runGenAll" THEN "" ELSE call.name]

\* validationErrors := validateSchemas(val, ...), and the return when there
\* are any.
AfterValidateSchemas(call, errors) ==
  IF errors > 0
    THEN [GenFail(call, "schema validation failed") EXCEPT
            !.checked = TRUE, !.schemaErrors = errors]
  ELSE [call EXCEPT !.pc = IF call.op = "runGenAll" THEN "pick" ELSE "get",
                    !.checked = TRUE,
                    !.cur = IF call.op = "runGenAll" THEN "" ELSE call.name]

GenValidateSchemas(errors) ==
  /\ cli # None /\ cli.pc = "check"
  /\ cli' = AfterValidateSchemas(cli, errors)
  /\ UNCHANGED <<regVars, fsVars, ld, vd, it, ty, js, cf>>

\* The GenConfig of the generator at work.
CurGenCfg(call) ==
  IF call.op = "runGenAll" THEN call.cfg.Generate[call.cur] ELSE call.genCfg

\* for name, genCfg := range cfg.Generate, in the order the map gives; a
\* generator that is not enabled is skipped.
GenAllPick(name) ==
  /\ cli # None /\ cli.pc = "pick"
  /\ name \in cli.todo
  /\ cli' = IF ~cli.cfg.Generate[name].Enabled
              THEN [cli EXCEPT !.todo = @ \ {name}]
            ELSE [cli EXCEPT !.pc = "get", !.cur = name]
  /\ UNCHANGED <<regVars, fsVars, ld, vd, it, ty, js, cf>>

\* runGenAll giving up the loop at the first generator that fails.
StepFailed_StopsLoop(call, what) ==
  IF call.op = "runGenAll"
    THEN [call EXCEPT !.pc = "pick", !.todo = {}, !.cur = "",
                      !.genErrors = Append(@, call.cur \o ": " \o what)]
  ELSE GenFail(call, call.cur \o " " \o what)

\* A step for the generator at work failed: runGenAll notes it and goes on
\* with the next generator, runGenerator returns the error.
StepFailed(call, what) ==
  IF call.op = "runGenAll"
    THEN [call EXCEPT !.pc = "pick", !.todo = @ \ {call.cur}, !.cur = "",
                      !.genErrors = Append(@, call.cur \o ": " \o what)]
  ELSE GenFail(call, call.cur \o " " \o what)

\* gen, err := generator.Get(name)
GenGet ==
  /\ cli # None /\ cli.pc = "get"
  /\ cli' = IF cli.cur \in RegisteredNames
              THEN [cli EXCEPT !.pc = "genValidate", !.lookedUp = @ \cup {cli.cur}]
            ELSE StepFailed([cli EXCEPT !.lookedUp = @ \cup {cli.cur}],
                            "generator not registered")
  /\ UNCHANGED <<regVars, fsVars, ld, vd, it, ty, js, cf>>

\* gen.Validate(ctx)
GenValidate(ok) ==
  /\ cli # None /\ cli.pc = "genValidate"
  /\ cli' = IF ok
              THEN [cli EXCEPT !.pc = "generate", !.validateCalled = @ \cup {cli.cur},
                               !.validateOk = @ \cup {cli.cur}]
            ELSE StepFailed([cli EXCEPT !.validateCalled = @ \cup {cli.cur}],
                            "validation failed")
  /\ UNCHANGED <<regVars, fsVars, ld, vd, it, ty, js, cf>>

\* output, err := gen.Generate(ctx)
GenGenerate(ok) ==
  /\ cli # None /\ cli.pc = "generate"
  /\ cli' = IF ok
              THEN [cli EXCEPT !.pc = "mkdir", !.generateCalled = @ \cup {cli.cur},
                               !.generateOk = @ \cup {cli.cur}]
            ELSE StepFailed([cli EXCEPT !.generateCalled = @ \cup {cli.cur}],
                            "generation failed")
  /\ UNCHANGED <<regVars, fsVars, ld, vd, it, ty, js, cf>>

\* os.MkdirAll(filepath.Dir(genCfg.Output), 0755)
GenMkdir(ok) ==
  /\ cli # None /\ cli.pc = "mkdir"
  /\ cli' = IF ok
              THEN [cli EXCEPT !.pc = "write",
                               !.dirs = @ \cup {Dir(CurGenCfg(cli).Output)}]
            ELSE StepFailed(cli, "failed to create output directory")
  /\ UNCHANGED <<regVars, fsVars, ld, vd, it, ty, js, cf>>

\* The generator at work has written its file.
StepWritten(call) ==
  LET wrote == [call EXCEPT !.written = @ \cup {call.cur},
                            !.files = @ \cup {CurGenCfg(call).Output}]
  IN IF call.op = "runGenAll"
       THEN [wrote EXCEPT !.pc = "pick", !.todo = @ \ {call.cur}, !.cur = "",
                          !.generated = Append(@, call.cur)]
     ELSE [wrote EXCEPT !.pc = "done", !.ret = Nil]

\* os.WriteFile(genCfg.Output, output, 0644); there is no file to write
\* when the path is empty.
GenWrite(ok) ==
  /\ cli # None /\ cli.pc = "write"
  /\ ok => CurGenCfg(cli).Output # ""
  /\ cli' = IF ok THEN StepWritten(cli)
            ELSE StepFailed(cli, "failed to write output file")
  /\ UNCHANGED <<regVars, fsVars, ld, vd, it, ty, js, cf>>

\* The loop of runGenAll has ended: the report and the return.
GenAllFinish ==
  /\ cli # None /\ cli.pc = "pick"
  /\ cli.todo = {}
  /\ cli' = [cli EXCEPT !.pc = "done", !.ret = GenAllResult(cli.genErrors)]
  /\ UNCHANGED <<regVars, fsVars, ld, vd, it, ty, js, cf>>

GenReturn ==
  /\ cli # None /\ cli.pc = "done"
  /\ cli' = None
  /\ UNCHANGED <<regVars, fsVars, ld, vd, it, ty, js, cf>>

GenInit ==
  /\ RegParked /\ FsParked /\ ld = None /\ vd = None /\ it = None /\ GenParked

GenNext ==
  \/ \E name \in GeneratorCommands, genOutput \in OutputFlags :
       \E opts \in CommandOptions(name) : CallRunGenerator(name, opts, genOutput)
  \/ \E cfg \in GenFileConfigs : CallRunGenAll(cfg)
  \/ \E loaded \in ConfigLoadErrors \cup GenFileConfigs : GenLoadConfig(loaded)
  \/ \E outcome \in SchemaLoadOutcomes : GenLoadPaths(outcome)
  \/ \E errors \in 0..MaxProblems : GenValidateSchemas(errors)
  \/ \E name \in GenTargets : GenAllPick(name)
  \/ GenGet
  \/ \E ok \in BOOLEAN : GenValidate(ok)
  \/ \E ok \in BOOLEAN : GenGenerate(ok)
  \/ \E ok \in BOOLEAN : GenMkdir(ok)
  \/ \E ok \in BOOLEAN : GenWrite(ok)
  \/ GenAllFinish
  \/ GenReturn

SpecGen == GenInit /\ [][GenNext]_vars

----------------------------------------------------------------------------
(* Properties of the gen commands *)

GenDone(op) == cli # None /\ cli.op = op /\ cli.pc = "done"

\* Something has been done with a generator or with an output file.
GeneratorAtWork ==
  \/ cli.pc \in {"genValidate", "generate", "mkdir", "write"}
  \/ cli.validateCalled # {} \/ cli.generateCalled # {}
  \/ cli.dirs # {} \/ cli.written # {} \/ cli.files # {}

\* C22: in runGenAll and in runGenerator no generator's Validate or Generate
\* is called, no output directory is created and no output file is written
\* unless LoadPaths succeeded and validateSchemas returned no error.
C22_ValidationGate ==
  cli # None
    => (GeneratorAtWork
          => /\ cli.loadCalled /\ cli.loaded
             /\ cli.checked /\ cli.schemaErrors = 0)

\* runGenerator has returned "schema validation failed" for a generator
\* that is registered, and nothing was called or written.
C22_Witness ==
  /\ GenDone("runGenerator")
  /\ cli.name = "go"
  /\ cli.loaded /\ cli.checked /\ cli.schemaErrors > 0
  /\ cli.ret = Wrap("schema validation failed", "", Nil)
  /\ cli.lookedUp = {} /\ cli.validateCalled = {} /\ cli.generateCalled = {}
  /\ cli.dirs = {} /\ cli.files = {}

\* The enabled and the disabled generators of the configuration.
EnabledIn(cfg) == {n \in DOMAIN cfg.Generate : cfg.Generate[n].Enabled}
DisabledIn(cfg) == {n \in DOMAIN cfg.Generate : ~cfg.Generate[n].Enabled}

\* runGenAll has come to its loop or beyond it.
GenAllLooping ==
  /\ cli # None /\ cli.op = "runGenAll"
  /\ cli.checked /\ cli.schemaErrors = 0

\* C23: once runGenAll has come to its loop, a generator that is not enabled
\* is never looked up, run or written; Generate is called for a generator
\* only after its Validate succeeded and its file is written only after
\* its Generate succeeded; when runGenAll returns, every enabled generator
\* has been looked up, whatever happened to the others, and the result is
\* an error iff some enabled generator did not get as far as its written
\* file (it failed at lookup, Validate, Generate, directory or write).
C23_EveryEnabledGeneratorAttempted ==
  GenAllLooping
    => /\ (cli.lookedUp \cup cli.validateCalled \cup cli.generateCalled \cup cli.written)
            \cap DisabledIn(cli.cfg) = {}
       /\ cli.validateCalled \subseteq cli.lookedUp \cap RegisteredNames
       /\ cli.generateCalled \subseteq cli.validateOk
       /\ cli.written \subseteq cli.generateOk
       /\ Len(cli.genErrors) + Len(cli.generated) + Cardinality(cli.todo \cap EnabledIn(cli.cfg))
            = Cardinality(EnabledIn(cli.cfg))
       /\ cli.pc = "done"
            => /\ EnabledIn(cli.cfg) \subseteq cli.lookedUp
               /\ (cli.ret # Nil) <=> (EnabledIn(cli.cfg) \ cli.written # {})

\* rust has failed at lookup, and go is at work after it.
C23_Witness ==
  /\ GenAllLooping
  /\ cli.pc = "genValidate" /\ cli.cur = "go"
  /\ cli.genErrors = <<"rust: generator not registered">>
  /\ cli.lookedUp = {"go", "rust"}

\* runGenAll has returned an error although go wrote its file.
GenAllPartlyWritten ==
  /\ GenDone("runGenAll")
  /\ cli.written = {"go"} /\ Len(cli.genErrors) = 1
  /\ cli.ret # Nil

\* The file name of a generator's default output.
DefaultFileName(name) ==
  CASE name = "go" -> "types.go"
    [] name = "jsonschema" -> "schema.json"

\* The options of the entry of the configuration, none without one.
EntryOptions(cfg, name) ==
  IF name \in DOMAIN cfg.Generate /\ cfg.Generate[name].Options # Nil
    THEN cfg.Generate[name].Options
  ELSE NoOptions

\* C26: in runGenerator the effective output path is the --output flag when
\* it is not empty, else the Output of the generator's entry in the
\* configuration when there is one, else "generated/" and the default file
\* name; the effective options are those of the entry overlaid by those of
\* the command line; an empty effective path is rejected before any schema
\* is loaded; and the file is written to the effective path.
C26_EffectiveOutputAndOptions ==
  (cli # None /\ cli.op = "runGenerator" /\ cli.cfg # Nil)
    => /\ cli.genCfg.Output =
            IF cli.genOutput # "" THEN cli.genOutput
            ELSE IF cli.name \in DOMAIN cli.cfg.Generate
              THEN cli.cfg.Generate[cli.name].Output
            ELSE "generated/" \o DefaultFileName(cli.name)
       /\ DOMAIN cli.genCfg.Options
            = DOMAIN EntryOptions(cli.cfg, cli.name) \cup DOMAIN cli.opts
       /\ \A k \in DOMAIN cli.opts : cli.genCfg.Options[k] = cli.opts[k]
       /\ \A k \in DOMAIN EntryOptions(cli.cfg, cli.name) \ DOMAIN cli.opts :
            cli.genCfg.Options[k] = EntryOptions(cli.cfg, cli.name)[k]
       /\ cli.genCfg.Output = ""
            => /\ cli.pc = "done" /\ cli.ret = Wrap("no output file specified", "", Nil)
               /\ ~cli.loadCalled /\ ~cli.loaded /\ ~cli.checked
       /\ cli.files \subseteq {cli.genCfg.Output}

\* gen go --package api has written the file the configuration names, with
\* the package of the command line and the tags of the configuration.
C26_Witness ==
  /\ GenDone("runGenerator")
  /\ cli.name = "go" /\ cli.genOutput = "" /\ cli.opts = [package |-> "api"]
  /\ cli.cfg # Nil /\ "go" \in DOMAIN cli.cfg.Generate
  /\ cli.cfg.Generate["go"].Options = TaggedOptions
  /\ cli.genCfg.Options = [package |-> "api", tags |-> "json"]
  /\ cli.files = {"out/api.txt"}
  /\ cli.ret = Nil

\* The --output flag has replaced the path of the configuration.
OutputFlagWins ==
  /\ GenDone("runGenerator")
  /\ cli.name = "go" /\ cli.genOutput = "custom/out.txt"
  /\ cli.cfg # Nil /\ "go" \in DOMAIN cli.cfg.Generate
  /\ cli.cfg.Generate["go"].Output = "out/api.txt"
  /\ cli.files = {"custom/out.txt"}

\* An entry without output: and no flag: the command is rejected.
EmptyOutputRejected ==
  /\ GenDone("runGenerator")
  /\ cli.genCfg # Nil /\ cli.genCfg.Output = ""
  /\ cli.ret # Nil /\ ~cli.loadCalled

----------------------------------------------------------------------------
(* The init command (internal/cli): runInit, config.Load and config.Save *)

\* strings.Split(s, sep) for a separator of one character.
RECURSIVE Split(_, _)
Split(s, sep) ==
  LET i == Index(s, sep) IN
    IF i = 0 THEN <<s>>
    ELSE <<SubSeq(s, 1, i - 1)>> \o Split(SubSeq(s, i + 1, Len(s)), sep)

\* A file of the project directory: not there, or there with its content.
NoFile == [exists |-> FALSE, content |-> ""]
File(content) == [exists |-> TRUE, content |-> content]

\* exampleContent, and what a user made of schemas/example.cue.
ExampleContent == "package schemas #Person: {name!: string}"
EditedContent == "package schemas #Order: {id!: int}"

\* platosl.yaml as a user may have it: version:, schemas: and generate: may
\* be left out; go has a generator and rust has none.
InitGenerateMaps ==
  UNION {[T -> {[Enabled |-> TRUE, Output |-> "lib/model.out", Options |-> CustomOptions]}] :
           T \in SUBSET {"go", "rust"}}
ConfigFiles ==
  [Version : {"", "v1"}, Name : {"shop"},
   Imports : {<<>>, <<"platosl.org/base/common@v1">>},
   Schemas : {<<>>, <<"api/">>},
   Validation : [Strict : BOOLEAN, FailOnWarning : {FALSE}],
   Generate : {Nil} \cup InitGenerateMaps]

\* The project directory before the command: platosl.yaml and
\* schemas/example.cue, each there or not.
Projects ==
  [config : {NoFile} \cup {File(c) : c \in ConfigFiles},
   example : {NoFile, File(ExampleContent), File(EditedContent)}]

\* The flags --base and --name, and --generators when it is given.
BaseFlags == {"", "platosl.org/base/address/us@v1"}
NameFlags == {"", "store"}
GeneratorsFlags == {"go", "typescript, go", "zod,rust", ""}

\* What the user can answer to the prompt: one option at least.
PromptAnswers == {<<"typescript">>, <<"go">>, <<"typescript", "go">>}

\* config.Load on a file that parses: the defaults are put in.
Load(file) ==
  [file EXCEPT !.Version = IF @ = "" THEN "v1" ELSE @,
               !.Schemas = IF Len(@) = 0 THEN <<"schemas/">> ELSE @,
               !.Generate = IF @ = Nil THEN NoOptions ELSE @]

\* config.Save: the configuration marshalled, every key written.
Save(cfg) == File(cfg)

\* The loop of UpdateGenerators from the i-th name on.
RECURSIVE UpdateFrom(_, _, _)
UpdateFrom(generate, selected, i) ==
  IF i > Len(allGenerators) THEN generate
  ELSE UpdateFrom(UpdateOne(generate, selected, allGenerators[i]), selected, i + 1)

UpdateGenerators(cfg, selected) ==
  [cfg EXCEPT !.Generate = UpdateFrom(cfg.Generate, selected, 1)]

\* The loop of DefaultWithGenerators from the i-th selected name on.
RECURSIVE DefaultsFrom(_, _, _)
DefaultsFrom(generate, selected, i) ==
  IF i > Len(selected) THEN generate
  ELSE DefaultsFrom(IF selected[i] \in {allGenerators[k] : k \in 1..Len(allGenerators)}
                      THEN WithGenConfig(generate, selected[i], DefaultGenConfig(selected[i]))
                    ELSE generate,
                    selected, i + 1)

DefaultWithGenerators(name, selected) ==
  [Version |-> "v1", Name |-> IF name = "" THEN "my-project" ELSE name,
   Imports |-> <<>>, Schemas |-> <<"schemas/">>,
   Validation |-> [Strict |-> TRUE, FailOnWarning |-> FALSE],
   Generate |-> DefaultsFrom(NoOptions, selected, 1)]

\* selectedGenerators from the --generators flag: split at the commas, each
\* part trimmed.
FromGeneratorsFlag(flag) ==
  LET parts == Split(flag, ",") IN [i \in 1..Len(parts) |-> TrimSpace(parts[i])]

\* A call of runInit that has not done anything yet.
InitStarted(project, base, name) ==
  [op |-> "runInit", pc |-> "exists", before |-> project, project |-> project,
   initBase |-> base, initName |-> name,
   existingConfig |-> FALSE, cfg |-> Nil, projectName |-> "",
   selectedGenerators |-> <<>>, dirs |-> {}, ret |-> None]

CallRunInit(project, base, name) ==
  /\ cli = None
  /\ cli' = InitStarted(project, base, name)
  /\ UNCHANGED <<regVars, fsVars, ld, vd, it, ty, js, cf>>

\* runInit returning err.
InitFail(call, msg) == [call EXCEPT !.pc = "done", !.ret = Wrap(msg, "", Nil)]

\* existingConfig := config.Exists(configPath), and the two branches: the
\* configuration is loaded, which fails when the file cannot be read or
\* parsed, or the project name is taken from --name or the directory.
InitDetect(readable) ==
  /\ cli # None /\ cli.op = "runInit" /\ cli.pc = "exists"
  /\ ~cli.project.config.exists => readable
  /\ cli' = IF cli.project.config.exists
              THEN IF readable
                     THEN [cli EXCEPT !.pc = "select", !.existingConfig = TRUE,
                                      !.cfg = Load(cli.project.config.content),
                                      !.projectName = Load(cli.project.config.content).Name]
                   ELSE InitFail([cli EXCEPT !.existingConfig = TRUE],
                                 "failed to load existing config")
            ELSE [cli EXCEPT !.pc = "select",
                             !.projectName = IF cli.initName = "" THEN "workdir"
                                             ELSE cli.initName]
  /\ UNCHANGED <<regVars, fsVars, ld, vd, it, ty, js, cf>>

\* The generators are taken from --generators.
InitSelectByFlag(flag) ==
  /\ cli # None /\ cli.op = "runInit" /\ cli.pc = "select"
  /\ cli' = [cli EXCEPT !.pc = "configure",
                        !.selectedGenerators = FromGeneratorsFlag(flag)]
  /\ UNCHANGED <<regVars, fsVars, ld, vd, it, ty, js, cf>>

\* The generators are asked for; the user answers, or cancels and there is
\* no answer.
InitSelectByPrompt(answer) ==
  /\ cli # None /\ cli.op = "runInit" /\ cli.pc = "select"
  /\ cli' = IF Len(answer) = 0
              THEN InitFail(cli, "generator selection cancelled or failed")
            ELSE [cli EXCEPT !.pc = "configure", !.selectedGenerators = answer]
  /\ UNCHANGED <<regVars, fsVars, ld, vd, it, ty, js, cf>>

\* runInit making a new configuration whether there is one or not.
InitConfig_AlwaysNew(call) ==
  DefaultWithGenerators(call.projectName, call.selectedGenerators)

\* Create or update config with selected generators.
InitConfig(call) ==
  IF call.existingConfig THEN UpdateGenerators(call.cfg, call.selectedGenerators)
  ELSE DefaultWithGenerators(call.projectName, call.selectedGenerators)

\* if initBase != "" { cfg.Imports = append(cfg.Imports, initBase) }
WithBase(cfg, base) ==
  IF base # "" THEN [cfg EXCEPT !.Imports = Append(@, base)] ELSE cfg

InitConfigure ==
  /\ cli # None /\ cli.op = "runInit" /\ cli.pc = "configure"
  /\ cli' = [cli EXCEPT !.pc = "mkdir", !.cfg = WithBase(InitConfig(cli), cli.initBase)]
  /\ UNCHANGED <<regVars, fsVars, ld, vd, it, ty, js, cf>>

\* os.MkdirAll for schemas and generated; each can fail.
InitMkdirs(made) ==
  /\ cli # None /\ cli.op = "runInit" /\ cli.pc = "mkdir"
  /\ cli' = IF made = 2 THEN [cli EXCEPT !.pc = "save", !.dirs = {"schemas", "generated"}]
            ELSE InitFail([cli EXCEPT !.dirs = IF made = 1 THEN {"schemas"} ELSE {}],
                          "failed to create directory")
  /\ UNCHANGED <<regVars, fsVars, ld, vd, it, ty, js, cf>>

\* config.Save(configPath, cfg)
InitSave(ok) ==
  /\ cli # None /\ cli.op = "runInit" /\ cli.pc = "save"
  /\ cli' = IF ok THEN [cli EXCEPT !.pc = "example", !.project.config = Save(cli.cfg)]
            ELSE InitFail(cli, "failed to save config")
  /\ UNCHANGED <<regVars, fsVars, ld, vd, it, ty, js, cf>>

\* runInit leaving a schemas/example.cue that is there alone.
WriteExample_KeepsExisting(project) ==
  IF project.example.exists THEN project
  ELSE [project EXCEPT !.example = File(ExampleContent)]

\* os.WriteFile(exampleSchema, []byte(exampleContent), 0644)
WriteExample(project) == [project EXCEPT !.example = File(ExampleContent)]

InitWriteExample(ok) ==
  /\ cli # None /\ cli.op = "runInit" /\ cli.pc = "example"
  /\ cli.project.example.exists \/ "schemas" \in cli.dirs
  /\ cli' = IF ok THEN [cli EXCEPT !.pc = "done", !.project = WriteExample(cli.project),
                                   !.ret = Nil]
            ELSE InitFail(cli, "failed to create example schema")
  /\ UNCHANGED <<regVars, fsVars, ld, vd, it, ty, js, cf>>

InitReturn ==
  /\ cli # None /\ cli.op = "runInit" /\ cli.pc = "done"
  /\ cli' = None
  /\ UNCHANGED <<regVars, fsVars, ld, vd, it, ty, js, cf>>

RunInitInit ==
  /\ RegParked /\ FsParked /\ ld = None /\ vd = None /\ it = None /\ GenParked

RunInitNext ==
  \/ \E project \in Projects, base \in BaseFlags, name \in NameFlags :
       CallRunInit(project, base, name)
  \/ \E readable \in BOOLEAN : InitDetect(readable)
  \/ \E flag \in GeneratorsFlags : InitSelectByFlag(flag)
  \/ \E answer \in PromptAnswers \cup {<<>>} : InitSelectByPrompt(answer)
  \/ InitConfigure
  \/ \E made \in 0..2 : InitMkdirs(made)
  \/ \E ok \in BOOLEAN : InitSave(ok)
  \/ \E ok \in BOOLEAN : InitWriteExample(ok)
  \/ InitReturn

SpecRunInit == RunInitInit /\ [][RunInitNext]_vars

----------------------------------------------------------------------------
(* Properties of the init command *)

\* runInit is at work, or has returned, in a directory that had a
\* platosl.yaml which could be loaded.
Reinitializing ==
  /\ cli # None /\ cli.op = "runInit"
  /\ cli.existingConfig /\ cli.cfg # Nil

\* The configuration config.Load gives for the platosl.yaml of a project.
LoadedFrom(project) == Load(project.config.content)

\* The project name, the schema paths and the validation settings are the
\* ones the directory had before.
SettingsKept ==
  /\ cli.project.config.exists
  /\ LoadedFrom(cli.project).Name = LoadedFrom(cli.before).Name
  /\ LoadedFrom(cli.project).Schemas = LoadedFrom(cli.before).Schemas
  /\ LoadedFrom(cli.project).Validation = LoadedFrom(cli.before).Validation
  /\ LoadedFrom(cli.project).Version = LoadedFrom(cli.before).Version

\* The imports are the ones before, with --base added at the end when it is
\* given and the configuration has been saved.
ImportsKeptOrExtended ==
  LoadedFrom(cli.project).Imports
    \in {LoadedFrom(cli.before).Imports,
         Append(LoadedFrom(cli.before).Imports, cli.initBase)}

\* C30, as stated: runInit in a directory that has a platosl.yaml leaves the
\* project name, the schema paths and the validation settings as they were,
\* and a schemas/example.cue that was there keeps its content.
C30_OnlyGeneratorsChange ==
  Reinitializing
    => /\ SettingsKept
       /\ cli.before.example.exists => cli.project.example = cli.before.example

\* C30, what holds: the project name, the schema paths and the validation
\* settings are as they were and the imports are kept or extended by --base,
\* but schemas/example.cue has its content of before only until runInit
\* writes it, and the example content, whatever it had, once runInit has
\* returned nil.
C30_SettingsKeptExampleRewritten ==
  Reinitializing
    => /\ SettingsKept
       /\ ImportsKeptOrExtended
       /\ cli.project.example \in {cli.before.example, File(ExampleContent)}
       /\ (cli.pc = "done" /\ cli.ret = Nil)
            => /\ cli.project.example = File(ExampleContent)
               /\ LoadedFrom(cli.project).Generate
                    = UpdateFrom(LoadedFrom(cli.before).Generate, cli.selectedGenerators, 1)
       /\ cli.ret \notin {None, Nil} => cli.project.example = cli.before.example

\* runInit --name store --generators go has returned nil in a project named
\* shop whose schemas/example.cue the user had edited: the name is shop, the
\* file has the example content.
C30_Witness ==
  /\ Reinitializing
  /\ cli.pc = "done" /\ cli.ret = Nil
  /\ cli.initName = "store" /\ cli.selectedGenerators = <<"go">>
  /\ cli.before.example = File(EditedContent)
  /\ cli.project.example = File(ExampleContent)
  /\ LoadedFrom(cli.project).Name = "shop"
  /\ LoadedFrom(cli.before).Schemas = <<"api/">>
  /\ LoadedFrom(cli.project).Schemas = <<"api/">>

====
